---- MODULE Spec2Model ----
(***************************************************************************)
(* State-machine model of debate_experiment.py: run_debate drives two      *)
(* debaters through four rounds, has every configured judge evaluate the   *)
(* two histories (optionally blind), aggregates the accepted verdicts and  *)
(* appends one record to outputs/out.jsonl.                                *)
(*                                                                         *)
(* Python values are tagged pairs <<tag, payload>> so that None, strings,  *)
(* numbers, lists and dicts can sit in the same slot.  A dict is a TLA+    *)
(* function whose DOMAIN is the set of keys that are present.              *)
(***************************************************************************)
EXTENDS Integers, Sequences, FiniteSets, TLC

VARIABLES
    pc,               \* position of run_debate
    raised,           \* the exception that ended the run ("" while none)
    i,                \* loop variable of "for i, round_file in enumerate(rounds, start=1)"
    blind_jury,       \* argument blind_jury
    judge_configs,    \* argument judge_configs (the judge model names, in order)
    history_a, history_b,
    messages_a, messages_b,
    variables_a, variables_b,
    rounds_log,
    totals,           \* total_cost, total_completion_tokens, ... of run_debate
    j,                \* index of cfg in "for cfg in judge_configs"
    jury_result,      \* what run_jury_evaluation built for the judge in flight
    jury_results, jury_parsed_list,
    out_jsonl,        \* the lines of outputs/out.jsonl
    trace,            \* history variable: the backend events of this run, in order
    responses,        \* history variable: the raw answers of the judges that returned
    jury_usages,      \* history variable: the usage payloads of the same judge calls
    file_at_start,    \* history variable: out_jsonl when run_debate was called
    fn_in, fn_out     \* argument and result of a helper applied on its own

vars == <<pc, raised, i, blind_jury, judge_configs, history_a, history_b,
          messages_a, messages_b, variables_a, variables_b, rounds_log, totals,
          j, jury_result, jury_results, jury_parsed_list, out_jsonl, trace,
          responses, jury_usages, file_at_start, fn_in, fn_out>>

-----------------------------------------------------------------------------
(* Bounds of the model *)

MaxJudges == 2

(* Program constants *)

NumRounds == 4

-----------------------------------------------------------------------------
(* Python values *)

None == <<"none", "">>

PyStr(s) == <<"str", s>>

PyInt(n) == <<"int", n>>

\* a (non-empty) JSON array: not a dict, not hashable
PyList == <<"list", "">>

PyDict(d) == <<"dict", d>>

EmptyDict == [k \in {} |-> None]

\* bool(v)
Truthy(v) ==
    CASE v[1] = "none" -> FALSE
      [] v[1] = "str"  -> v[2] # ""
      [] v[1] = "int"  -> v[2] # 0
      [] v[1] = "text" -> Len(v[2]) > 0
      [] v[1] = "dict" -> DOMAIN v[2] # {}
      [] OTHER         -> TRUE

\* v or d
Or(v, d) == IF Truthy(v) THEN v ELSE d

\* isinstance(v, str)
IsStr(v) == v[1] \in {"str", "text", "merged", "rendered"}

\* d.get(k)
Get(d, k) == IF k \in DOMAIN d THEN d[k] ELSE None

\* d.get(k, default)
GetOr(d, k, default) == IF k \in DOMAIN d THEN d[k] ELSE default

\* d[k] = v
DictSet(d, k, v) == [x \in DOMAIN d \cup {k} |-> IF x = k THEN v ELSE d[x]]

\* d.update(e)
DictUpdate(d, e) == [x \in DOMAIN d \cup DOMAIN e |-> IF x \in DOMAIN e THEN e[x] ELSE d[x]]

-----------------------------------------------------------------------------
(* Configuration of the run *)

TOPIC == PyStr("X")

CONDITIONS == PyStr("")

model_a == "model_a"

model_b == "model_b"

JudgeModels == <<"judge1", "judge2", "judge3", "judge4">>

SystemPrompt == PyStr("system.txt")

\* load_prompt(f"model_a/{round_file}"): the template is known by its place
Template(dir, round) == [dir |-> dir, round |-> round]

\* "MODEL_B_ROUND_1", ...: f"{opponent_label}_ROUND_{round_index - 1}"
OpponentKey(opponent_label, n) == <<opponent_label, "ROUND", n>>

\* the keys "TOPIC" and "CONDITIONS" of the round variables
BaseVariables == [k \in {<<"TOPIC", "", 0>>, <<"CONDITIONS", "", 0>>} |->
                    IF k[1] = "TOPIC" THEN TOPIC ELSE CONDITIONS]

-----------------------------------------------------------------------------
(* Pure helpers of debate_experiment.py *)

\* render_prompt: str.replace raises TypeError on a value that is not a str
RenderRaises(variables) == \E k \in DOMAIN variables : ~IsStr(variables[k])

\* render_prompt: the template with its {{KEY}} places bound
render_prompt(template, variables) ==
    <<"rendered", [template |-> template, bound |-> variables]>>

\* f"{item['content']}": None is formatted as the text None
Format(content) == IF content = None THEN "None" ELSE content[2]

merge_responses(history) ==
    <<"merged", [n \in 1..Len(history) |->
                   [round |-> n, body |-> Format(history[n].content)]]>>

\* faulty variant: the opponent's current round instead of the one before
build_opponent_variables_Current(round_index, opponent_history, opponent_label) ==
    IF round_index <= 1 THEN EmptyDict
    ELSE LET target_index == round_index - 1 IN
         IF target_index >= Len(opponent_history) THEN EmptyDict
         ELSE [k \in {OpponentKey(opponent_label, round_index - 1)} |->
                 opponent_history[target_index + 1].content]

build_opponent_variables(round_index, opponent_history, opponent_label) ==
    IF round_index <= 1 THEN EmptyDict
    ELSE LET target_index == round_index - 2 IN
         IF target_index >= Len(opponent_history) THEN EmptyDict
         ELSE [k \in {OpponentKey(opponent_label, round_index - 1)} |->
                 opponent_history[target_index + 1].content]

ZeroUsage ==
    [cost |-> 0, completion_tokens |-> 0, prompt_tokens |-> 0,
     total_tokens |-> 0, reasoning |-> "", reasoning_tokens |-> 0]

\* int(x or 0), float(x or 0.0)
Number(v) == IF Truthy(v) THEN v[2] ELSE 0

\* faulty variant: the cost is read from "cost" first
extract_usage_fields_CostFirst(usage) ==
    IF ~Truthy(usage) THEN ZeroUsage
    ELSE LET u == usage[2]
             cost0 == Get(u, "cost")
             cost == IF cost0 = None THEN GetOr(u, "total_cost", PyInt(0)) ELSE cost0
         IN [cost |-> Number(cost),
             completion_tokens |-> Number(Get(u, "completion_tokens")),
             prompt_tokens |-> Number(Get(u, "prompt_tokens")),
             total_tokens |-> Number(Get(u, "total_tokens")),
             reasoning |-> "",
             reasoning_tokens |-> Number(Get(u, "reasoning_tokens"))]

extract_usage_fields(usage) ==
    IF ~Truthy(usage) THEN ZeroUsage
    ELSE LET u == usage[2]
             cost0 == Get(u, "total_cost")
             cost == IF cost0 = None THEN GetOr(u, "cost", PyInt(0)) ELSE cost0
         IN [cost |-> Number(cost),
             completion_tokens |-> Number(Get(u, "completion_tokens")),
             prompt_tokens |-> Number(Get(u, "prompt_tokens")),
             total_tokens |-> Number(Get(u, "total_tokens")),
             reasoning |-> "",
             reasoning_tokens |-> Number(Get(u, "reasoning_tokens"))]

\* faulty variant: the reasoning tokens of a call are not added
AddUsage_ReasoningDropped(t, u) ==
    [total_cost |-> t.total_cost + u.cost,
     total_completion_tokens |-> t.total_completion_tokens + u.completion_tokens,
     total_prompt_tokens |-> t.total_prompt_tokens + u.prompt_tokens,
     total_tokens |-> t.total_tokens + u.total_tokens,
     total_reasoning_tokens |-> t.total_reasoning_tokens]

\* faulty variant: total_tokens is assigned, not added
AddUsage_TotalAssigned(t, u) ==
    [total_cost |-> t.total_cost + u.cost,
     total_completion_tokens |-> t.total_completion_tokens + u.completion_tokens,
     total_prompt_tokens |-> t.total_prompt_tokens + u.prompt_tokens,
     total_tokens |-> u.total_tokens,
     total_reasoning_tokens |-> t.total_reasoning_tokens + u.reasoning_tokens]

\* total_cost += cost_a; total_completion_tokens += completion_tokens_a; ...
AddUsage(t, u) ==
    [total_cost |-> t.total_cost + u.cost,
     total_completion_tokens |-> t.total_completion_tokens + u.completion_tokens,
     total_prompt_tokens |-> t.total_prompt_tokens + u.prompt_tokens,
     total_tokens |-> t.total_tokens + u.total_tokens,
     total_reasoning_tokens |-> t.total_reasoning_tokens + u.reasoning_tokens]

\* faulty variant: B's entry copied from A's block with the side left as it was
RoundEntry_SideA(id, side, prompt, content, u) ==
    [id |-> id, side |-> "A", prompt |-> prompt, content |-> Or(content, PyStr("")),
     cost |-> u.cost, completion_tokens |-> u.completion_tokens,
     prompt_tokens |-> u.prompt_tokens, total_tokens |-> u.total_tokens,
     reasoning |-> u.reasoning, reasoning_tokens |-> u.reasoning_tokens]

\* the dict appended to rounds_log (duration_seconds, a wall-clock reading, is left out)
RoundEntry(id, side, prompt, content, u) ==
    [id |-> id, side |-> side, prompt |-> prompt, content |-> Or(content, PyStr("")),
     cost |-> u.cost, completion_tokens |-> u.completion_tokens,
     prompt_tokens |-> u.prompt_tokens, total_tokens |-> u.total_tokens,
     reasoning |-> u.reasoning, reasoning_tokens |-> u.reasoning_tokens]

-----------------------------------------------------------------------------
(* What the backend can answer *)

\* the text debater `side` writes in round n
ReplyText(side, n) ==
    IF side = "A" THEN <<"a1", "a2", "a3", "a4">>[n] ELSE <<"b1", "b2", "b3", "b4">>[n]

\* response.choices[0].message.content: a text, or None
DebaterContents(side, n) == {None, PyStr(ReplyText(side, n))}

\* response.usage.model_dump() if response.usage else None
SomeUsage ==
    PyDict([k \in {"completion_tokens", "prompt_tokens", "total_tokens"} |->
              IF k = "total_tokens" THEN PyInt(2) ELSE PyInt(1)])

DebaterUsages == {SomeUsage}

-----------------------------------------------------------------------------
(* run_debate: the four rounds *)

Raise(exc) ==
    /\ pc' = "raised"
    /\ raised' = exc

Event(ev, round, side) == [ev |-> ev, round |-> round, side |-> side]

\* faulty variant: the loop ends one round early
RoundLoopStep_OneShort(n) ==
    IF n < NumRounds - 1 THEN [i |-> n + 1, pc |-> "prompt_a"] ELSE [i |-> n, pc |-> "jury"]

\* line 295: after B's half of round n, the next round or the end of the loop
RoundLoopStep(n) ==
    IF n < NumRounds THEN [i |-> n + 1, pc |-> "prompt_a"] ELSE [i |-> n, pc |-> "jury"]

\* lines 301-304: build A's variables, render, append the user message
PromptA ==
    /\ pc = "prompt_a"
    /\ LET variables == DictUpdate(BaseVariables,
                                   build_opponent_variables(i, history_b, "MODEL_B"))
       IN /\ variables_a' = variables
          /\ IF RenderRaises(variables)
             THEN /\ Raise("TypeError")
                  /\ UNCHANGED <<messages_a, trace>>
             ELSE /\ messages_a' = Append(messages_a,
                        [role |-> "user",
                         content |-> render_prompt(Template("model_a", i), variables)])
                  /\ trace' = Append(trace, Event("prompt", i, "A"))
                  /\ pc' = "call_a"
                  /\ UNCHANGED raised
    /\ UNCHANGED <<responses, jury_usages, file_at_start, fn_in, fn_out,
                   i, blind_jury, judge_configs, history_a, history_b, messages_b,
                   variables_b, rounds_log, totals, j, jury_result, jury_results,
                   jury_parsed_list, out_jsonl>>

\* faulty variant: both debaters share one thread, so A's answer lands in B's too
ReturnA_SharedThread(contents, usages) ==
    /\ pc = "call_a"
    /\ \E content \in contents, usage \in usages :
         LET result_a == [model |-> model_a, content |-> content, usage |-> usage]
             u == extract_usage_fields(usage)
             prompt_a == messages_a[Len(messages_a)].content
         IN /\ history_a' = Append(history_a, result_a)
            /\ messages_a' = Append(messages_a,
                   [role |-> "assistant", content |-> Or(content, PyStr(""))])
            /\ messages_b' = Append(messages_b,
                   [role |-> "assistant", content |-> Or(content, PyStr(""))])
            /\ rounds_log' = Append(rounds_log, RoundEntry(i, "A", prompt_a, content, u))
            /\ totals' = AddUsage(totals, u)
    /\ trace' = Append(trace, Event("return", i, "A"))
    /\ pc' = "prompt_b"
    /\ UNCHANGED <<responses, jury_usages, file_at_start, fn_in, fn_out,
                   raised, i, blind_jury, judge_configs, history_b,
                   variables_a, variables_b, j, jury_result, jury_results,
                   jury_parsed_list, out_jsonl>>

\* lines 307-340: call_model returns; history, thread, rounds_log and totals grow
ReturnA(contents, usages) ==
    /\ pc = "call_a"
    /\ \E content \in contents, usage \in usages :
         LET result_a == [model |-> model_a, content |-> content, usage |-> usage]
             u == extract_usage_fields(usage)
             prompt_a == messages_a[Len(messages_a)].content
         IN /\ history_a' = Append(history_a, result_a)
            /\ messages_a' = Append(messages_a,
                   [role |-> "assistant", content |-> Or(content, PyStr(""))])
            /\ rounds_log' = Append(rounds_log, RoundEntry(i, "A", prompt_a, content, u))
            /\ totals' = AddUsage(totals, u)
    /\ trace' = Append(trace, Event("return", i, "A"))
    /\ pc' = "prompt_b"
    /\ UNCHANGED <<responses, jury_usages, file_at_start, fn_in, fn_out,
                   raised, i, blind_jury, judge_configs, history_b, messages_b,
                   variables_a, variables_b, j, jury_result, jury_results,
                   jury_parsed_list, out_jsonl>>

\* faulty variant: the failure is swallowed and the round goes on with B
FailA_Swallowed ==
    /\ pc = "call_a"
    /\ trace' = Append(trace, Event("fail", i, "A"))
    /\ pc' = "prompt_b"
    /\ UNCHANGED <<responses, jury_usages, file_at_start, fn_in, fn_out, raised,
                   i, blind_jury, judge_configs, history_a, history_b, messages_a,
                   messages_b, variables_a, variables_b, rounds_log, totals, j,
                   jury_result, jury_results, jury_parsed_list, out_jsonl>>

\* line 307: call_model raises; nothing in run_debate catches it
FailA ==
    /\ pc = "call_a"
    /\ Raise("BackendError")
    /\ trace' = Append(trace, Event("fail", i, "A"))
    /\ UNCHANGED <<responses, jury_usages, file_at_start, fn_in, fn_out,
                   i, blind_jury, judge_configs, history_a, history_b, messages_a,
                   messages_b, variables_a, variables_b, rounds_log, totals, j,
                   jury_result, jury_results, jury_parsed_list, out_jsonl>>

\* lines 342-345
PromptB ==
    /\ pc = "prompt_b"
    /\ LET variables == DictUpdate(BaseVariables,
                                   build_opponent_variables(i, history_a, "MODEL_A"))
       IN /\ variables_b' = variables
          /\ IF RenderRaises(variables)
             THEN /\ Raise("TypeError")
                  /\ UNCHANGED <<messages_b, trace>>
             ELSE /\ messages_b' = Append(messages_b,
                        [role |-> "user",
                         content |-> render_prompt(Template("model_b", i), variables)])
                  /\ trace' = Append(trace, Event("prompt", i, "B"))
                  /\ pc' = "call_b"
                  /\ UNCHANGED raised
    /\ UNCHANGED <<responses, jury_usages, file_at_start, fn_in, fn_out,
                   i, blind_jury, judge_configs, history_a, history_b, messages_a,
                   variables_a, rounds_log, totals, j, jury_result, jury_results,
                   jury_parsed_list, out_jsonl>>

\* lines 348-381, and the loop's step: the next round, or on to the judges
ReturnB(contents, usages) ==
    /\ pc = "call_b"
    /\ \E content \in contents, usage \in usages :
         LET result_b == [model |-> model_b, content |-> content, usage |-> usage]
             u == extract_usage_fields(usage)
             prompt_b == messages_b[Len(messages_b)].content
         IN /\ history_b' = Append(history_b, result_b)
            /\ messages_b' = Append(messages_b,
                   [role |-> "assistant", content |-> Or(content, PyStr(""))])
            /\ rounds_log' = Append(rounds_log, RoundEntry(i, "B", prompt_b, content, u))
            /\ totals' = AddUsage(totals, u)
    /\ trace' = Append(trace, Event("return", i, "B"))
    /\ i' = RoundLoopStep(i).i
    /\ pc' = RoundLoopStep(i).pc
    /\ UNCHANGED <<responses, jury_usages, file_at_start, fn_in, fn_out,
                   raised, blind_jury, judge_configs, history_a, messages_a,
                   variables_a, variables_b, j, jury_result, jury_results,
                   jury_parsed_list, out_jsonl>>

\* line 348: call_model raises
FailB ==
    /\ pc = "call_b"
    /\ Raise("BackendError")
    /\ trace' = Append(trace, Event("fail", i, "B"))
    /\ UNCHANGED <<responses, jury_usages, file_at_start, fn_in, fn_out,
                   i, blind_jury, judge_configs, history_a, history_b, messages_a,
                   messages_b, variables_a, variables_b, rounds_log, totals, j,
                   jury_result, jury_results, jury_parsed_list, out_jsonl>>

-----------------------------------------------------------------------------
(* A judge's answer as text: a sequence of tokens.  "ws" is a run of        *)
(* whitespace, "fence" a run of backticks, "json" the word json, "prose"    *)
(* any other text that is not JSON, "value" one complete JSON value.        *)

Tok(t) == [t |-> t, v |-> None]

Value(v) == [t |-> "value", v |-> v]

Text(tokens) == <<"text", tokens>>

RECURSIVE lstrip(_, _)
\* s.lstrip(chars)
lstrip(s, t) == IF s # <<>> /\ Head(s).t = t THEN lstrip(Tail(s), t) ELSE s

RECURSIVE rstrip(_, _)
\* s.rstrip(chars)
rstrip(s, t) ==
    IF s # <<>> /\ s[Len(s)].t = t THEN rstrip(SubSeq(s, 1, Len(s) - 1), t) ELSE s

\* s.strip(chars)
strip(s, t) == rstrip(lstrip(s, t), t)

\* s.startswith(prefix)
startswith(s, t) == s # <<>> /\ Head(s).t = t

\* json.loads(s) succeeds: one JSON value, whitespace around it allowed
Decodes(s) == LET c == strip(s, "ws") IN Len(c) = 1 /\ c[1].t = "value"

\* json.loads(s)
json_loads(s) == strip(s, "ws")[1].v

parse_jury_response(text) ==
    IF ~Truthy(text) THEN PyDict(EmptyDict)
    ELSE LET cleaned == strip(text[2], "ws")
             unfenced == strip(cleaned, "fence")
             body == IF startswith(cleaned, "fence")
                     THEN IF startswith(unfenced, "json")
                          THEN lstrip(Tail(unfenced), "ws")
                          ELSE unfenced
                     ELSE cleaned
         IN IF Decodes(body) THEN json_loads(body) ELSE PyDict(EmptyDict)

-----------------------------------------------------------------------------
(* De-blinding and validation *)

IdentityMap == [A |-> "A", B |-> "B"]

SwapMap == [A |-> "B", B |-> "A"]

\* faulty variant: the winner is not mapped back
remap_winner_Unmapped(raw_winner, side_map) == Or(raw_winner, PyStr(""))

remap_winner(raw_winner, side_map) ==
    IF raw_winner = PyStr("Side A") THEN PyStr("Side " \o side_map.A)
    ELSE IF raw_winner = PyStr("Side B") THEN PyStr("Side " \o side_map.B)
    ELSE Or(raw_winner, PyStr(""))

NormalizedKeys ==
    {"total_score_A", "total_score_B", "detailed_scores_A", "detailed_scores_B",
     "winner", "reasoning", "general"}

\* faulty variant: the totals are exchanged, the detailed scores are not
normalize_jury_scores_DetailsKept(parsed, side_map) ==
    IF side_map.A = "A" THEN parsed
    ELSE [k \in NormalizedKeys |->
            CASE k = "total_score_A" -> Get(parsed, "total_score_B")
              [] k = "total_score_B" -> Get(parsed, "total_score_A")
              [] OTHER               -> Get(parsed, k)]

\* faulty variant: the detailed scores are exchanged, the totals are not
normalize_jury_scores_TotalsKept(parsed, side_map) ==
    IF side_map.A = "A" THEN parsed
    ELSE [k \in NormalizedKeys |->
            CASE k = "detailed_scores_A" -> Get(parsed, "detailed_scores_B")
              [] k = "detailed_scores_B" -> Get(parsed, "detailed_scores_A")
              [] OTHER                   -> Get(parsed, k)]

\* faulty variant: total_score_B is read under a key the judge's object lacks
normalize_jury_scores_TotalLost(parsed, side_map) ==
    IF side_map.A = "A" THEN parsed
    ELSE [k \in NormalizedKeys |->
            CASE k = "total_score_A"     -> Get(parsed, "total_score_B")
              [] k = "total_score_B"     -> None
              [] k = "detailed_scores_A" -> Get(parsed, "detailed_scores_B")
              [] k = "detailed_scores_B" -> Get(parsed, "detailed_scores_A")
              [] OTHER                   -> Get(parsed, k)]

normalize_jury_scores(parsed, side_map) ==
    IF side_map.A = "A" THEN parsed
    ELSE [k \in NormalizedKeys |->
            CASE k = "total_score_A"     -> Get(parsed, "total_score_B")
              [] k = "total_score_B"     -> Get(parsed, "total_score_A")
              [] k = "detailed_scores_A" -> Get(parsed, "detailed_scores_B")
              [] k = "detailed_scores_B" -> Get(parsed, "detailed_scores_A")
              [] OTHER                   -> Get(parsed, k)]

\* hash(v) works: a list or a dict cannot be looked up in a set
Hashable(v) == v[1] \notin {"list", "dict"}

\* parsed.get("winner") in {"Side A", "Side B"}
WinnerIsSide(parsed) == Get(parsed, "winner") \in {PyStr("Side A"), PyStr("Side B")}

\* is_valid_jury raises TypeError: the set lookup hashes the winner
ValidRaises(parsed) == parsed # EmptyDict /\ ~Hashable(Get(parsed, "winner"))

\* faulty variant: the winner is not checked, only the totals
is_valid_jury_TotalsOnly(parsed) ==
    IF parsed = EmptyDict THEN FALSE
    ELSE /\ Get(parsed, "total_score_A") # None
         /\ Get(parsed, "total_score_B") # None

is_valid_jury(parsed) ==
    IF parsed = EmptyDict THEN FALSE
    ELSE IF ~WinnerIsSide(parsed) THEN FALSE
    ELSE /\ Get(parsed, "total_score_A") # None
         /\ Get(parsed, "total_score_B") # None

-----------------------------------------------------------------------------
(* run_jury_evaluation and the judge loop of run_debate *)

JudgeTemplate == Template("judge", 0)

\* faulty variant: the texts are swapped but the side_map is not
BlindedTexts_MapNotSwapped(text_a, text_b, blind) ==
    IF blind
    THEN [side_a_text |-> text_b, side_b_text |-> text_a, side_map |-> IdentityMap]
    ELSE [side_a_text |-> text_a, side_b_text |-> text_b, side_map |-> IdentityMap]

\* lines 190-195: the two transcripts, swapped when blind, and the side_map
BlindedTexts(text_a, text_b, blind) ==
    IF blind
    THEN [side_a_text |-> text_b, side_b_text |-> text_a, side_map |-> SwapMap]
    ELSE [side_a_text |-> text_a, side_b_text |-> text_b, side_map |-> IdentityMap]

\* lines 199-204: the variables of the judge prompt
JudgeVariables(side_a_text, side_b_text) ==
    [k \in {<<"TOPIC", "", 0>>, <<"CONDITIONS", "", 0>>,
            <<"SIDE_A_TEXT", "", 0>>, <<"SIDE_B_TEXT", "", 0>>} |->
        CASE k[1] = "TOPIC"       -> TOPIC
          [] k[1] = "CONDITIONS"  -> CONDITIONS
          [] k[1] = "SIDE_A_TEXT" -> side_a_text
          [] OTHER                -> side_b_text]

NoJuryResult ==
    [judge_model |-> "", side_map |-> IdentityMap, prompt |-> None, messages |-> <<>>]

\* faulty variant: a blind run swaps the two histories themselves
JuryPrompt_SwapsHistories ==
    /\ pc = "jury"
    /\ j <= Len(judge_configs)
    /\ history_a' = (IF blind_jury THEN history_b ELSE history_a)
    /\ history_b' = (IF blind_jury THEN history_a ELSE history_b)
    /\ LET rendered_prompt ==
               render_prompt(JudgeTemplate,
                             JudgeVariables(merge_responses(history_a'),
                                            merge_responses(history_b')))
       IN jury_result' =
              [judge_model |-> judge_configs[j],
               side_map |-> IF blind_jury THEN SwapMap ELSE IdentityMap,
               prompt |-> rendered_prompt,
               messages |-> <<[role |-> "system",
                               content |-> PyStr("You are a neutral debate judge.")],
                              [role |-> "user", content |-> rendered_prompt]>>]
    /\ trace' = Append(trace, Event("prompt", j, "J"))
    /\ pc' = "jury_call"
    /\ UNCHANGED <<responses, jury_usages, file_at_start, fn_in, fn_out,
                   raised, i, blind_jury, judge_configs,
                   messages_a, messages_b, variables_a, variables_b, rounds_log,
                   totals, j, jury_results, jury_parsed_list, out_jsonl>>

\* lines 386-394 and 187-211: run_jury_evaluation up to its call_model
JuryPrompt ==
    /\ pc = "jury"
    /\ j <= Len(judge_configs)
    /\ LET b == BlindedTexts(merge_responses(history_a), merge_responses(history_b),
                             blind_jury)
           rendered_prompt ==
               render_prompt(JudgeTemplate, JudgeVariables(b.side_a_text, b.side_b_text))
       IN jury_result' =
              [judge_model |-> judge_configs[j],
               side_map |-> b.side_map,
               prompt |-> rendered_prompt,
               messages |-> <<[role |-> "system",
                               content |-> PyStr("You are a neutral debate judge.")],
                              [role |-> "user", content |-> rendered_prompt]>>]
    /\ trace' = Append(trace, Event("prompt", j, "J"))
    /\ pc' = "jury_call"
    /\ UNCHANGED <<responses, jury_usages, file_at_start, fn_in, fn_out,
                   raised, i, blind_jury, judge_configs, history_a, history_b,
                   messages_a, messages_b, variables_a, variables_b, rounds_log,
                   totals, j, jury_results, jury_parsed_list, out_jsonl>>

\* faulty variant: the winner is mapped back, the scores are left as written
Deblind_ScoresNotSwapped(jury_parsed_raw, side_map) ==
    LET remapped_winner ==
            remap_winner(GetOr(jury_parsed_raw, "winner", PyStr("")), side_map)
    IN normalize_jury_scores(DictSet(jury_parsed_raw, "winner", remapped_winner),
                             IdentityMap)

\* lines 409-418, for a decoded response that is a dict
Deblind(jury_parsed_raw, side_map) ==
    LET remapped_winner ==
            remap_winner(GetOr(jury_parsed_raw, "winner", PyStr("")), side_map)
    IN normalize_jury_scores(DictSet(jury_parsed_raw, "winner", remapped_winner),
                             side_map)

\* lines 423-435: the dict appended to jury_results
JuryEntry(model, jr, raw_response, u, blind) ==
    [model |-> model, prompt |-> Or(jr.prompt, PyStr("")),
     content |-> Or(raw_response, Text(<<>>)),
     cost |-> u.cost, completion_tokens |-> u.completion_tokens,
     prompt_tokens |-> u.prompt_tokens, total_tokens |-> u.total_tokens,
     reasoning |-> u.reasoning, reasoning_tokens |-> u.reasoning_tokens,
     blind |-> blind, side_map |-> jr.side_map]

\* lines 409-421 for one judge: what becomes of the decoded response
HandleVerdict(jury_parsed_raw, side_map) ==
    IF jury_parsed_raw[1] # "dict"
    THEN \* jury_parsed_raw.get: a list, a str, a number or None has no get
         [outcome |-> "AttributeError", jury_parsed |-> EmptyDict]
    ELSE LET jury_parsed == Deblind(jury_parsed_raw[2], side_map)
         IN IF ValidRaises(jury_parsed)
            THEN [outcome |-> "TypeError", jury_parsed |-> jury_parsed]
            ELSE IF ~is_valid_jury(jury_parsed)
            THEN [outcome |-> "skip", jury_parsed |-> jury_parsed]
            ELSE [outcome |-> "accept", jury_parsed |-> jury_parsed]

\* faulty variant: the judge's entry is appended before the verdict is validated
JuryReturn_EntryBeforeCheck(answers, usages) ==
    /\ pc = "jury_call"
    /\ \E raw_response \in answers, usage \in usages :
         LET u == extract_usage_fields(usage)
             jury_parsed_raw == parse_jury_response(Or(raw_response, Text(<<>>)))
             h == HandleVerdict(jury_parsed_raw, jury_result.side_map)
         IN /\ totals' = AddUsage(totals, u)
            /\ responses' = Append(responses, raw_response)
            /\ jury_usages' = Append(jury_usages, usage)
            /\ jury_results' = Append(jury_results,
                   JuryEntry(judge_configs[j], jury_result, raw_response, u, blind_jury))
            /\ IF h.outcome \in {"AttributeError", "TypeError"}
               THEN /\ Raise(h.outcome)
                    /\ UNCHANGED <<j, jury_parsed_list>>
               ELSE /\ j' = j + 1
                    /\ pc' = "jury"
                    /\ UNCHANGED raised
                    /\ IF h.outcome = "skip"
                       THEN UNCHANGED jury_parsed_list
                       ELSE jury_parsed_list' = Append(jury_parsed_list, h.jury_parsed)
    /\ trace' = Append(trace, Event("return", j, "J"))
    /\ UNCHANGED <<file_at_start, fn_in, fn_out,
                   i, blind_jury, judge_configs, history_a, history_b,
                   messages_a, messages_b, variables_a, variables_b, rounds_log,
                   jury_result, out_jsonl>>

\* lines 212-220 and 395-436: the judge's call returns and its answer is handled
JuryReturn(answers, usages) ==
    /\ pc = "jury_call"
    /\ \E raw_response \in answers, usage \in usages :
       \E jury_parsed_raw \in {parse_jury_response(Or(raw_response, Text(<<>>)))} :
         LET u == extract_usage_fields(usage)
             h == HandleVerdict(jury_parsed_raw, jury_result.side_map)
         IN /\ totals' = AddUsage(totals, u)
            /\ responses' = Append(responses, raw_response)
            /\ jury_usages' = Append(jury_usages, usage)
            /\ IF h.outcome \in {"AttributeError", "TypeError"}
               THEN /\ Raise(h.outcome)
                    /\ UNCHANGED <<j, jury_results, jury_parsed_list>>
               ELSE /\ j' = j + 1
                    /\ pc' = "jury"
                    /\ UNCHANGED raised
                    /\ IF h.outcome = "skip"
                       THEN UNCHANGED <<jury_results, jury_parsed_list>>
                       ELSE /\ jury_results' = Append(jury_results,
                                  JuryEntry(judge_configs[j], jury_result,
                                            raw_response, u, blind_jury))
                            /\ jury_parsed_list' =
                                  Append(jury_parsed_list, h.jury_parsed)
    /\ trace' = Append(trace, Event("return", j, "J"))
    /\ UNCHANGED <<file_at_start, fn_in, fn_out,
                   i, blind_jury, judge_configs, history_a, history_b,
                   messages_a, messages_b, variables_a, variables_b, rounds_log,
                   jury_result, out_jsonl>>

\* line 212: call_model raises in run_jury_evaluation; neither it nor run_debate
\* has a try around the call
JuryFail ==
    /\ pc = "jury_call"
    /\ Raise("BackendError")
    /\ trace' = Append(trace, Event("fail", j, "J"))
    /\ UNCHANGED <<responses, jury_usages, file_at_start, fn_in, fn_out,
                   i, blind_jury, judge_configs, history_a, history_b, messages_a,
                   messages_b, variables_a, variables_b, rounds_log, totals, j,
                   jury_result, jury_results, jury_parsed_list, out_jsonl>>

-----------------------------------------------------------------------------
(* Aggregation and the record *)

\* winners = [item.get("winner") for item in jury_parsed_list if item.get("winner")]
Winners(parsed_list) ==
    LET keep == {k \in 1..Len(parsed_list) : Truthy(Get(parsed_list[k], "winner"))}
        F[n \in 0..Len(parsed_list)] ==
            IF n = 0 THEN <<>>
            ELSE IF n \in keep THEN Append(F[n - 1], Get(parsed_list[n], "winner"))
            ELSE F[n - 1]
    IN F[Len(parsed_list)]

\* winners.count(w)
Count(winners, w) == Cardinality({k \in 1..Len(winners) : winners[k] = w})

WinnerCounts(winners) ==
    [w \in {"Side A", "Side B"} |-> Count(winners, PyStr(w))]

\* faulty variant: a tie goes to Side B
FinalWinner_TieToB(winners) ==
    IF winners = <<>> THEN PyStr("")
    ELSE IF Count(winners, PyStr("Side A")) > Count(winners, PyStr("Side B"))
         THEN PyStr("Side A")
         ELSE PyStr("Side B")

\* faulty variant: the counts are compared even when there is no winner at all
FinalWinner_NoShortCircuit(winners) ==
    IF WinnerCounts(winners)["Side A"] >= WinnerCounts(winners)["Side B"]
    THEN PyStr("Side A")
    ELSE PyStr("Side B")

\* lines 442-446
FinalWinner(winners) ==
    IF winners = <<>> THEN PyStr("")
    ELSE IF WinnerCounts(winners)["Side A"] >= WinnerCounts(winners)["Side B"]
         THEN PyStr("Side A")
         ELSE PyStr("Side B")

\* faulty variant: the loop has no break, so a later verdict for the winner fills in
Representative_NoBreak(parsed_list, final_winner) ==
    LET F[n \in 0..Len(parsed_list)] ==
            IF n = 0 THEN [winner_reason |-> PyStr(""), general_summary |-> PyStr("")]
            ELSE IF Get(parsed_list[n], "winner") # final_winner THEN F[n - 1]
            ELSE [winner_reason |->
                      Or(GetOr(parsed_list[n], "reasoning", PyStr("")),
                         F[n - 1].winner_reason),
                  general_summary |->
                      Or(GetOr(parsed_list[n], "general", PyStr("")),
                         F[n - 1].general_summary)]
    IN F[Len(parsed_list)]

\* lines 447-453: the first verdict of the list whose winner is final_winner
Representative(parsed_list, final_winner) ==
    LET hits == {k \in 1..Len(parsed_list) :
                    Get(parsed_list[k], "winner") = final_winner}
    IN IF hits = {}
       THEN [winner_reason |-> PyStr(""), general_summary |-> PyStr("")]
       ELSE LET parsed == parsed_list[CHOOSE k \in hits : \A m \in hits : k <= m]
            IN [winner_reason |->
                    Or(GetOr(parsed, "reasoning", PyStr("")), PyStr("")),
                general_summary |->
                    Or(GetOr(parsed, "general", PyStr("")), PyStr(""))]

\* lines 455-485 (total_duration_seconds, a wall-clock reading, is left out)
Record(uid) ==
    LET winners == Winners(jury_parsed_list)
        final_winner == FinalWinner(winners)
        rep == Representative(jury_parsed_list, final_winner)
    IN [id |-> uid, topic |-> TOPIC, conditions |-> CONDITIONS, lang |-> "en",
        proposition |-> model_a, opposition |-> model_b, jury |-> judge_configs,
        rounds |-> rounds_log,
        evaluation |-> [juries |-> jury_results, parsed |-> jury_parsed_list,
                        winner_counts |-> WinnerCounts(winners)],
        result |-> [general |-> rep.general_summary, winner |-> final_winner,
                    winning_reason |-> rep.winner_reason],
        total_cost |-> totals.total_cost,
        total_completion_tokens |-> totals.total_completion_tokens,
        total_prompt_tokens |-> totals.total_prompt_tokens,
        total_tokens |-> totals.total_tokens,
        total_reasoning_tokens |-> totals.total_reasoning_tokens]

\* faulty variant: the file is opened with "w", so it is emptied before the write
save_jsonl_Truncating(records, file) ==
    [n \in 1..Len(records) |-> <<"json", records[n]>>]

\* save_jsonl: one json.dumps line per record, appended to the file
save_jsonl(records, file) ==
    LET F[n \in 0..Len(records)] ==
            IF n = 0 THEN file ELSE Append(F[n - 1], <<"json", records[n]>>)
    IN F[Len(records)]

\* faulty variant: the membership test is the wrong way round
unique_id_TestInverted(seen, ids) ==
    {[uid |-> uid, seen |-> seen \cup {uid}] : uid \in ids \cap seen}

\* lines 140-145, generate drawing from ids: the loop ends with the first id
\* generated that is not in seen, returns it and has added it to seen
unique_id(seen, ids) == {[uid |-> uid, seen |-> seen \cup {uid}] : uid \in ids \ seen}

\* lines 438-488: the judge loop is over; aggregate, build the record, append it.
\* seen_ids is a new empty set in every call of run_debate (line 463).
Finish(ids) ==
    /\ pc = "jury"
    /\ j > Len(judge_configs)
    /\ LET seen_ids == {}
       IN \E r \in unique_id(seen_ids, ids) :
              out_jsonl' = save_jsonl(<<Record(r.uid)>>, out_jsonl)
    /\ pc' = "done"
    /\ UNCHANGED <<responses, jury_usages, file_at_start, fn_in, fn_out,
                   raised, i, blind_jury, judge_configs, history_a, history_b,
                   messages_a, messages_b, variables_a, variables_b, rounds_log,
                   totals, j, jury_result, jury_results, jury_parsed_list, trace>>

-----------------------------------------------------------------------------
(* What a judge can answer *)

\* marks a key the judge's object does not have
Absent == <<"absent", "">>

\* the judge's JSON object with the given values, absent keys left out
MkVerdict(winner, total_a, total_b, detailed_a, detailed_b, reasoning, general) ==
    LET all == [winner |-> winner, total_score_A |-> total_a, total_score_B |-> total_b,
                detailed_scores_A |-> detailed_a, detailed_scores_B |-> detailed_b,
                reasoning |-> reasoning, general |-> general]
    IN [k \in {x \in DOMAIN all : all[x] # Absent} |-> all[k]]

Detailed(n) == PyDict([k \in {"conceptual_clarity"} |-> PyInt(n)])

\* verdicts that name a side and carry both totals
ValidVerdicts ==
    {MkVerdict(PyStr(w), PyInt(s[1]), PyInt(s[2]), Detailed(s[1]), Detailed(s[2]),
               r, PyStr("summary")) :
        w \in {"Side A", "Side B"}, s \in {<<2, 1>>, <<1, 2>>},
        r \in {Absent, PyStr("why")}}

\* objects that is_valid_jury turns down, and one whose winner cannot be hashed
InvalidVerdicts ==
    {EmptyDict,
     MkVerdict(PyStr("Draw"), PyInt(1), PyInt(1), Absent, Absent, Absent, Absent),
     MkVerdict(Absent, PyInt(2), PyInt(1), Absent, Absent, PyStr("why"), Absent),
     MkVerdict(None, PyInt(2), PyInt(1), Absent, Absent, Absent, Absent),
     MkVerdict(PyStr("Side A"), None, PyInt(1), Absent, Absent, Absent, Absent),
     MkVerdict(PyStr("Side B"), PyInt(1), Absent, Absent, Absent, Absent, Absent),
     MkVerdict(PyList, PyInt(2), PyInt(1), Absent, Absent, Absent, Absent)}

Fenced(v) ==
    Text(<<Tok("fence"), Tok("json"), Tok("ws"), Value(v), Tok("ws"), Tok("fence")>>)

\* result["content"] of a judge call: None, or a text
JudgeResponses ==
    {None, Text(<<>>), Text(<<Tok("prose")>>),
     Text(<<Tok("prose"), Tok("ws"), Value(PyDict(EmptyDict))>>),
     Text(<<Value(PyList)>>), Text(<<Value(PyInt(7))>>), Text(<<Value(None)>>),
     Text(<<Tok("ws"), Value(PyStr("Side A")), Tok("ws")>>)}
    \cup {Text(<<Value(PyDict(v))>>) : v \in ValidVerdicts \cup InvalidVerdicts}
    \cup {Fenced(PyDict(v)) : v \in {w \in ValidVerdicts : "reasoning" \notin DOMAIN w}}
    \cup {Fenced(PyList)}

JudgeUsages == {SomeUsage}

\* what generate(size=16, alphabet=...) can return
Ids == {"id1", "id2"}

-----------------------------------------------------------------------------
(* The run *)

ZeroTotals ==
    [total_cost |-> 0, total_completion_tokens |-> 0, total_prompt_tokens |-> 0,
     total_tokens |-> 0, total_reasoning_tokens |-> 0]

\* lines 280-293: the state of run_debate when its round loop starts
Init ==
    /\ pc = "prompt_a"
    /\ raised = ""
    /\ i = 1
    /\ blind_jury \in BOOLEAN
    /\ judge_configs \in {SubSeq(JudgeModels, 1, n) : n \in 0..MaxJudges}
    /\ history_a = <<>>
    /\ history_b = <<>>
    /\ messages_a = <<[role |-> "system", content |-> SystemPrompt]>>
    /\ messages_b = <<[role |-> "system", content |-> SystemPrompt]>>
    /\ variables_a = EmptyDict
    /\ variables_b = EmptyDict
    /\ rounds_log = <<>>
    /\ totals = ZeroTotals
    /\ j = 1
    /\ jury_result = NoJuryResult
    /\ jury_results = <<>>
    /\ jury_parsed_list = <<>>
    /\ out_jsonl = <<>>
    /\ trace = <<>>
    /\ responses = <<>>
    /\ jury_usages = <<>>
    /\ file_at_start = <<>>
    /\ fn_in = <<>>
    /\ fn_out = <<>>

Next ==
    \/ PromptA
    \/ ReturnA(DebaterContents("A", i), DebaterUsages)
    \/ FailA
    \/ PromptB
    \/ ReturnB(DebaterContents("B", i), DebaterUsages)
    \/ FailB
    \/ JuryPrompt
    \/ JuryReturn(JudgeResponses, JudgeUsages)
    \/ JuryFail
    \/ Finish(Ids)

Spec == Init /\ [][Next]_vars

-----------------------------------------------------------------------------
(* De-blinding on its own: the helpers applied to judge objects drawn from a *)
(* wider set than the run above draws from.                                 *)

\* lines 385-446 without the backend: the judge loop over the objects the
\* judges wrote, then the count and the decision
Panel(raws, blind) ==
    LET side_map == BlindedTexts(merge_responses(<<>>), merge_responses(<<>>),
                                 blind).side_map
        F[n \in 0..Len(raws)] ==
            IF n = 0 THEN [raised |-> "", parsed |-> <<>>]
            ELSE LET prev == F[n - 1]
                     h == HandleVerdict(PyDict(raws[n]), side_map)
                 IN IF prev.raised # "" THEN prev
                    ELSE IF h.outcome \in {"AttributeError", "TypeError"}
                    THEN [raised |-> h.outcome, parsed |-> prev.parsed]
                    ELSE IF h.outcome = "skip" THEN prev
                    ELSE [raised |-> "", parsed |-> Append(prev.parsed, h.jury_parsed)]
        end == F[Len(raws)]
    IN [raised |-> end.raised, parsed |-> end.parsed,
        winner_counts |-> WinnerCounts(Winners(end.parsed)),
        winner |-> FinalWinner(Winners(end.parsed))]

\* judge objects with every field absent, null or set, and an extra key or not
RichVerdicts ==
    LET base == {MkVerdict(w, ta, tb, da, db, r, g) :
                    w \in {Absent, None, PyStr("Side A"), PyStr("Side B"),
                           PyStr("Draw"), PyList},
                    ta \in {Absent, None, PyInt(1), PyInt(2)},
                    tb \in {Absent, None, PyInt(1), PyInt(2)},
                    da \in {Absent, Detailed(1)},
                    db \in {Absent, Detailed(2)},
                    r \in {Absent, PyStr(""), PyStr("why")},
                    g \in {Absent, PyStr("summary")}}
    IN base \cup {DictSet(v, "confidence", PyInt(1)) : v \in base}

\* the objects of one judge, or of a panel of up to MaxJudges judges
PanelInputs ==
    {<<v>> : v \in RichVerdicts}
    \cup UNION {[1..n -> ValidVerdicts \cup InvalidVerdicts] : n \in 2..MaxJudges}

\* the same opinion written under swapped labels: what the judge says of the
\* side shown as Side A it now says of the side shown as Side B
SwapKey(k) ==
    CASE k = "total_score_A"     -> "total_score_B"
      [] k = "total_score_B"     -> "total_score_A"
      [] k = "detailed_scores_A" -> "detailed_scores_B"
      [] k = "detailed_scores_B" -> "detailed_scores_A"
      [] OTHER                   -> k

LabelSwap(v) ==
    [k \in {SwapKey(x) : x \in DOMAIN v} |->
        IF k = "winner"
        THEN IF v[k] = PyStr("Side A") THEN PyStr("Side B")
             ELSE IF v[k] = PyStr("Side B") THEN PyStr("Side A")
             ELSE v[k]
        ELSE v[SwapKey(k)]]

\* the variables of run_debate, at rest
RunIdle ==
    /\ raised = ""
    /\ i = 1
    /\ blind_jury = FALSE
    /\ judge_configs = <<>>
    /\ history_a = <<>>
    /\ history_b = <<>>
    /\ messages_a = <<>>
    /\ messages_b = <<>>
    /\ variables_a = EmptyDict
    /\ variables_b = EmptyDict
    /\ rounds_log = <<>>
    /\ totals = ZeroTotals
    /\ j = 1
    /\ jury_result = NoJuryResult
    /\ jury_results = <<>>
    /\ jury_parsed_list = <<>>
    /\ out_jsonl = <<>>
    /\ trace = <<>>
    /\ responses = <<>>
    /\ jury_usages = <<>>
    /\ file_at_start = <<>>

RunVars ==
    <<raised, i, blind_jury, judge_configs, history_a, history_b, messages_a,
      messages_b, variables_a, variables_b, rounds_log, totals, j, jury_result,
      jury_results, jury_parsed_list, out_jsonl, trace, responses, jury_usages,
      file_at_start>>

InitDeblind ==
    /\ pc = "fn"
    /\ fn_in \in PanelInputs
    /\ fn_out = <<>>
    /\ RunIdle

\* normalize_jury_scores(parsed, side_map) on one object
ApplyNormalize ==
    /\ pc = "fn"
    /\ Len(fn_in) = 1
    /\ \E side_map \in {IdentityMap, SwapMap} :
         fn_out' = [fn |-> "normalize_jury_scores", side_map |-> side_map,
                    val |-> normalize_jury_scores(fn_in[1], side_map)]
    /\ pc' = "fn_done"
    /\ UNCHANGED <<fn_in, RunVars>>

\* the judge loop twice: on the objects as written for a run that is not blind,
\* and on the same opinions written under swapped labels for a blind run
ApplyPanels ==
    /\ pc = "fn"
    /\ fn_out' = [fn |-> "Panel",
                  plain |-> Panel(fn_in, FALSE),
                  blind |-> Panel([n \in 1..Len(fn_in) |-> LabelSwap(fn_in[n])], TRUE)]
    /\ pc' = "fn_done"
    /\ UNCHANGED <<fn_in, RunVars>>

\* lines 409-421 on one object, as a run that is not blind and as a blind run
\* handle it
ApplyHandle ==
    /\ pc = "fn"
    /\ Len(fn_in) = 1
    /\ fn_out' = [fn |-> "HandleVerdict",
                  plain |-> HandleVerdict(PyDict(fn_in[1]), IdentityMap),
                  blind |-> HandleVerdict(PyDict(fn_in[1]), SwapMap)]
    /\ pc' = "fn_done"
    /\ UNCHANGED <<fn_in, RunVars>>

NextDeblind ==
    \/ ApplyNormalize
    \/ ApplyPanels
    \/ ApplyHandle

SpecDeblind == InitDeblind /\ [][NextDeblind]_vars

-----------------------------------------------------------------------------
(* Properties of the run *)

\* the events of the debater calls, in order
DebaterEvents ==
    LET IsDebater(e) == e.side \in {"A", "B"} IN SelectSeq(trace, IsDebater)

\* the events of the judge calls, in order
JudgeEvents ==
    LET IsJudge(e) == e.side = "J" IN SelectSeq(trace, IsJudge)

\* the entry of rounds_log for (round n, side s)
LogEntry(n, s) ==
    rounds_log[CHOOSE k \in 1..Len(rounds_log) :
                  rounds_log[k].id = n /\ rounds_log[k].side = s]

OppVariables(variables) ==
    [k \in {x \in DOMAIN variables : x[2] = "ROUND"} |-> variables[k]]

\* C1: the debater calls happen in the order (1,A),(1,B),(2,A),...,(4,B): the k-th
\* debater event is the prompt or the end of the call that the fixed order puts
\* there, so B's prompt of a round is built only after A's call of that round has
\* returned and a round starts only after both calls of the round before it have
\* returned; a failed call is the last event; the judges start after all 8 returns.
C1_FixedCallOrder ==
    LET d == DebaterEvents IN
    /\ \A k \in 1..Len(d) :
         LET pos == (k - 1) % 4 IN
         /\ d[k].round = ((k - 1) \div 4) + 1
         /\ d[k].side = (IF pos < 2 THEN "A" ELSE "B")
         /\ IF pos \in {0, 2} THEN d[k].ev = "prompt" ELSE d[k].ev \in {"return", "fail"}
         /\ d[k].ev = "fail" => k = Len(d)
    /\ Len(d) <= 4 * NumRounds
    /\ pc \in {"jury", "jury_call", "done"} \/ JudgeEvents # <<>>
         => /\ Len(d) = 4 * NumRounds
            /\ d[Len(d)].ev = "return"

C1_Witness ==
    /\ pc = "done"
    /\ Len(DebaterEvents) = 16
    /\ DebaterEvents[16] = Event("return", 4, "B")

\* C2: the opponent content bound in a round-n prompt is exactly the opponent's
\* round n-1 answer, under the key of that round; round 1 binds none.
C2_OneRoundBehind ==
    LET Expected(n, opponent, label) ==
            IF n = 1 THEN EmptyDict
            ELSE [k \in {OpponentKey(label, n - 1)} |-> LogEntry(n - 1, opponent).content]
        Origin(variables, opponent, n) ==
            \A k \in DOMAIN OppVariables(variables) :
                variables[k] = PyStr(ReplyText(opponent, n - 1))
    IN /\ pc = "call_a" =>
            /\ OppVariables(variables_a) = Expected(i, "B", "MODEL_B")
            /\ Origin(variables_a, "B", i)
            /\ messages_a[Len(messages_a)].content[2].bound = variables_a
       /\ pc = "call_b" =>
            /\ OppVariables(variables_b) = Expected(i, "A", "MODEL_A")
            /\ Origin(variables_b, "A", i)
            /\ messages_b[Len(messages_b)].content[2].bound = variables_b
       /\ \A k \in 1..Len(rounds_log) :
            LET e == rounds_log[k]
                opp == IF e.side = "A" THEN "B" ELSE "A"
            IN OppVariables(e.prompt[2].bound)
                 = Expected(e.id, opp, IF opp = "A" THEN "MODEL_A" ELSE "MODEL_B")

C2_Witness ==
    /\ pc = "call_b"
    /\ i = 3
    /\ Len(history_a) = 3
    /\ variables_b[OpponentKey("MODEL_A", 2)] = PyStr("a2")

\* C3: every line of out.jsonl written by the run holds 8 rounds tagged
\* (1,A),(1,B),(2,A),(2,B),(3,A),(3,B),(4,A),(4,B), in this order.
C3_EightRoundsInOrder ==
    \A n \in 1..Len(out_jsonl) :
        LET rounds == out_jsonl[n][2].rounds
        IN /\ Len(rounds) = 8
           /\ \A k \in 1..8 :
                /\ rounds[k].id = ((k - 1) \div 2) + 1
                /\ rounds[k].side = (IF k % 2 = 1 THEN "A" ELSE "B")
           /\ \A r \in 1..4, s \in {"A", "B"} :
                Cardinality({k \in 1..Len(rounds) :
                               rounds[k].id = r /\ rounds[k].side = s}) = 1

C3_Witness ==
    /\ pc = "done"
    /\ Len(out_jsonl) = 1
    /\ Len(out_jsonl[1][2].rounds) = 8

\* the transcript of true side t
Transcript(t) == merge_responses(IF t = "A" THEN history_a ELSE history_b)

\* C4: the text the judge reads as Side X is the transcript of true side
\* side_map[X]; blind swaps both the texts and the map; the map is a bijection.
C4_LabelsFollowSideMap ==
    LET Holds(prompt, side_map) ==
            LET bound == prompt[2].bound IN
            /\ bound[<<"SIDE_A_TEXT", "", 0>>] = Transcript(side_map.A)
            /\ bound[<<"SIDE_B_TEXT", "", 0>>] = Transcript(side_map.B)
            /\ {side_map.A, side_map.B} = {"A", "B"}
            /\ IF blind_jury
               THEN /\ side_map = [A |-> "B", B |-> "A"]
                    /\ bound[<<"SIDE_A_TEXT", "", 0>>] = merge_responses(history_b)
                    /\ bound[<<"SIDE_B_TEXT", "", 0>>] = merge_responses(history_a)
               ELSE /\ side_map = [A |-> "A", B |-> "B"]
                    /\ bound[<<"SIDE_A_TEXT", "", 0>>] = merge_responses(history_a)
                    /\ bound[<<"SIDE_B_TEXT", "", 0>>] = merge_responses(history_b)
    IN /\ pc = "jury_call" => Holds(jury_result.prompt, jury_result.side_map)
       /\ \A k \in 1..Len(jury_results) :
            Holds(jury_results[k].prompt, jury_results[k].side_map)

C4_Witness ==
    /\ pc = "jury_call"
    /\ blind_jury
    /\ jury_result.prompt[2].bound[<<"SIDE_A_TEXT", "", 0>>] = merge_responses(history_b)
    /\ merge_responses(history_a) # merge_responses(history_b)

\* the winner in the object the judge wrote, for an entry of jury_results
RawWinner(entry) == Get(parse_jury_response(entry.content)[2], "winner")

\* C5: an accepted verdict's winner is the judge's winner mapped through side_map,
\* and a blind run with one judge whose valid verdict says Side A records Side B.
C5_WinnerMappedBack ==
    /\ \A k \in 1..Len(jury_results) :
         LET sm == jury_results[k].side_map
             w == Get(jury_parsed_list[k], "winner")
         IN /\ RawWinner(jury_results[k]) = PyStr("Side A") => w = PyStr("Side " \o sm.A)
            /\ RawWinner(jury_results[k]) = PyStr("Side B") => w = PyStr("Side " \o sm.B)
    /\ \A n \in 1..Len(out_jsonl) :
         LET rec == out_jsonl[n][2] IN
         /\ blind_jury
         /\ Len(rec.jury) = 1
         /\ Len(rec.evaluation.juries) = 1
         /\ RawWinner(rec.evaluation.juries[1]) = PyStr("Side A")
         => rec.result.winner = PyStr("Side B")

C5_Witness ==
    /\ pc = "done"
    /\ blind_jury
    /\ Len(judge_configs) = 1
    /\ Len(jury_results) = 1
    /\ RawWinner(jury_results[1]) = PyStr("Side A")
    /\ out_jsonl[1][2].result.winner = PyStr("Side B")

\* the claim's acceptance test, on the judge's answer as the judge gave it: the
\* decoded answer is a non-empty object, names a side and carries both totals
ValidAnswer(raw_response) ==
    LET parsed == parse_jury_response(Or(raw_response, Text(<<>>))) IN
    /\ parsed[1] = "dict"
    /\ parsed[2] # EmptyDict
    /\ Get(parsed[2], "winner") \in {PyStr("Side A"), PyStr("Side B")}
    /\ Get(parsed[2], "total_score_A") # None
    /\ Get(parsed[2], "total_score_B") # None

\* judge k of judge_configs has an entry in jury_results
Accepted(k) == \E m \in 1..Len(jury_results) : jury_results[m].model = judge_configs[k]

\* the part of C8 the code keeps: a judge is in the lists exactly when its answer
\* passes the acceptance test
AcceptedIffValid ==
    /\ Len(jury_results) = Len(jury_parsed_list)
    /\ \A k \in 1..Len(responses) : Accepted(k) <=> ValidAnswer(responses[k])

\* C8: a judge's verdict is in evaluation.juries and evaluation.parsed exactly
\* when its answer passes the acceptance test, and after any other answer the
\* loop goes on to the next judge.
C8_DroppedAndContinues ==
    /\ Len(jury_results) = Len(jury_parsed_list)
    /\ \A k \in 1..Len(responses) :
         /\ Accepted(k) <=> ValidAnswer(responses[k])
         /\ ~ValidAnswer(responses[k]) => j > k /\ pc # "raised"

\* C9: handling a judge's answer never raises, whatever the text: the accepted
\* verdicts are those of the valid answers, and a finished run has had an answer
\* from every judge and has written its record.
C9_AnswerNeverRaises ==
    /\ JudgeEvents # <<>> /\ JudgeEvents[Len(JudgeEvents)].ev = "return" => raised = ""
    /\ Len(jury_parsed_list)
         = Cardinality({k \in 1..Len(responses) : ValidAnswer(responses[k])})
    /\ pc = "done" => Len(responses) = Len(judge_configs) /\ Len(out_jsonl) = 1

\* C10: a failed judge call is caught: it does not end the run.
C10_JudgeFailureCaught ==
    \A k \in 1..Len(JudgeEvents) :
        JudgeEvents[k].ev = "fail" => pc # "raised" /\ raised = ""

-----------------------------------------------------------------------------
(* Properties of de-blinding *)

ScoreKeys ==
    {"total_score_A", "total_score_B", "detailed_scores_A", "detailed_scores_B"}

\* C6: with side_map.A # "A" the normalized object reads total_score_A from the
\* judge's total_score_B and the reverse, the same for detailed_scores, and
\* reads reasoning and general as the judge gave them; with side_map.A = "A" it
\* is the judge's object.
C6_ScoresExchanged ==
    pc = "fn_done" /\ fn_out.fn = "normalize_jury_scores" =>
        LET parsed == fn_in[1]
            out == fn_out.val
        IN IF fn_out.side_map.A # "A"
           THEN /\ Get(out, "total_score_A") = Get(parsed, "total_score_B")
                /\ Get(out, "total_score_B") = Get(parsed, "total_score_A")
                /\ Get(out, "detailed_scores_A") = Get(parsed, "detailed_scores_B")
                /\ Get(out, "detailed_scores_B") = Get(parsed, "detailed_scores_A")
                /\ Get(out, "reasoning") = Get(parsed, "reasoning")
                /\ Get(out, "general") = Get(parsed, "general")
           ELSE /\ out = parsed
                /\ \A k \in ScoreKeys : Get(out, k) = Get(parsed, k)

C6_Witness ==
    /\ pc = "fn_done"
    /\ fn_out.fn = "normalize_jury_scores"
    /\ fn_out.side_map = SwapMap
    /\ Get(fn_in[1], "total_score_A") = PyInt(1)
    /\ Get(fn_in[1], "total_score_B") = PyInt(2)
    /\ Get(fn_in[1], "detailed_scores_A") = Detailed(1)
    /\ Get(fn_in[1], "detailed_scores_B") = Detailed(2)
    /\ Get(fn_in[1], "reasoning") = PyStr("why")
    /\ Get(fn_out.val, "total_score_A") = PyInt(2)
    /\ Get(fn_out.val, "detailed_scores_B") = Detailed(1)

\* C7: a panel's opinions handled in a run that is not blind, and the same
\* opinions written under swapped labels handled in a blind run, give the same
\* normalized verdicts (winner, totals, detailed scores), the same final winner
\* and the same winner counts.
C7_DeblindingRecoversTrueSide ==
    pc = "fn_done" /\ fn_out.fn = "Panel" =>
        LET p == fn_out.plain
            b == fn_out.blind
        IN /\ p.raised = b.raised
           /\ Len(p.parsed) = Len(b.parsed)
           /\ \A k \in 1..Len(p.parsed) :
                \A f \in ScoreKeys \cup {"winner"} :
                    Get(p.parsed[k], f) = Get(b.parsed[k], f)
           /\ p.winner = b.winner
           /\ p.winner_counts = b.winner_counts

C7_Witness ==
    /\ pc = "fn_done"
    /\ fn_out.fn = "Panel"
    /\ Len(fn_in) = 2
    /\ Len(fn_out.blind.parsed) = 2
    /\ Get(fn_in[1], "winner") = PyStr("Side B")
    /\ Get(fn_in[1], "total_score_A") = PyInt(1)
    /\ Get(fn_in[1], "total_score_B") = PyInt(2)
    /\ Get(fn_out.blind.parsed[1], "total_score_B") = PyInt(2)
    /\ fn_out.blind.winner = PyStr("Side B")
    /\ fn_out.blind.winner_counts["Side B"] = 2

-----------------------------------------------------------------------------
(* Failure of a debater call *)

\* C11: once a debater call has failed at (round, side) the run is over with that
\* exception: the failure is the last backend event (no later debater call, no
\* judge call), out.jsonl is as it was when the run started, and the calls that
\* returned are exactly those before the failed (round, side) in the fixed order.
C11_DebaterFailureAborts ==
    LET d == DebaterEvents IN
    \A k \in 1..Len(d) :
        d[k].ev = "fail" =>
            LET completed == (k - 2) \div 2 IN
            /\ pc = "raised"
            /\ raised = "BackendError"
            /\ trace[Len(trace)] = d[k]
            /\ JudgeEvents = <<>>
            /\ out_jsonl = file_at_start
            /\ d[k].round = (completed \div 2) + 1
            /\ d[k].side = (IF completed % 2 = 0 THEN "A" ELSE "B")
            /\ Len(rounds_log) = completed
            /\ \A m \in 1..completed :
                 /\ rounds_log[m].id = ((m - 1) \div 2) + 1
                 /\ rounds_log[m].side = (IF m % 2 = 1 THEN "A" ELSE "B")
                 /\ d[2 * m].ev = "return"

C11_Witness ==
    /\ pc = "raised"
    /\ trace # <<>>
    /\ trace[Len(trace)] = Event("fail", 3, "B")
    /\ Len(rounds_log) = 5
    /\ out_jsonl = <<>>

-----------------------------------------------------------------------------
(* The decision *)

\* the record this run has written
ThisRecord == out_jsonl[Len(out_jsonl)][2]

\* the judges of this run whose answer passes the acceptance test
ValidJudges == {k \in 1..Len(responses) : ValidAnswer(responses[k])}

\* the side a valid answer is for, once a blind run's labels are mapped back
TrueWinner(raw_response) ==
    LET w == Get(parse_jury_response(Or(raw_response, Text(<<>>)))[2], "winner")
    IN IF ~blind_jury THEN w
       ELSE IF w = PyStr("Side A") THEN PyStr("Side B") ELSE PyStr("Side A")

\* the number of valid answers for the true side w
VotesFor(w) == Cardinality({k \in ValidJudges : TrueWinner(responses[k]) = w})

\* C12: in the record of a finished run the two winner counts add up to at most
\* the number of configured judges, to exactly that number if and only if every
\* configured judge gave a valid answer, and always to the length of
\* evaluation.parsed.
C12_CountsSumToParsed ==
    pc = "done" =>
        LET rec == ThisRecord
            sum == rec.evaluation.winner_counts["Side A"]
                     + rec.evaluation.winner_counts["Side B"]
        IN /\ sum <= Len(rec.jury)
           /\ sum = Len(rec.jury) <=> ValidJudges = 1..Len(judge_configs)
           /\ sum = Len(rec.evaluation.parsed)

C12_Witness ==
    /\ pc = "done"
    /\ Len(judge_configs) = 2
    /\ ValidJudges = {2}
    /\ ThisRecord.evaluation.winner_counts["Side A"]
         + ThisRecord.evaluation.winner_counts["Side B"] = 1

\* C13: with n valid answers for true Side A, m for true Side B and n + m >= 1,
\* the record's winner is Side A when n >= m and Side B when n < m; one judge,
\* not blind, with a valid answer for Side A gives winner Side A, counts 1 and 0
\* and 8 rounds.
C13_DecisionRule ==
    pc = "done" =>
        LET rec == ThisRecord
            n == VotesFor(PyStr("Side A"))
            m == VotesFor(PyStr("Side B"))
        IN /\ n + m >= 1 =>
                rec.result.winner = (IF n >= m THEN PyStr("Side A") ELSE PyStr("Side B"))
           /\ rec.evaluation.winner_counts = [w \in {"Side A", "Side B"} |->
                                                 IF w = "Side A" THEN n ELSE m]
           /\ ( /\ ~blind_jury
                /\ Len(judge_configs) = 1
                /\ ValidJudges = {1}
                /\ TrueWinner(responses[1]) = PyStr("Side A") )
              => /\ rec.result.winner = PyStr("Side A")
                 /\ rec.evaluation.winner_counts["Side A"] = 1
                 /\ rec.evaluation.winner_counts["Side B"] = 0
                 /\ Len(rec.rounds) = 8

\* a tie of one valid answer each, decided for Side A
C13_Witness ==
    /\ pc = "done"
    /\ VotesFor(PyStr("Side A")) = 1
    /\ VotesFor(PyStr("Side B")) = 1
    /\ ThisRecord.result.winner = PyStr("Side A")

-----------------------------------------------------------------------------
(* The aggregation of lines 440-453 applied on its own *)

\* the longest jury_parsed_list the aggregation is applied to
MaxPanel == 3

\* what the judge at position k can have in jury_parsed_list: an accepted verdict
\* for either side whose reasoning and general are missing, empty or a text of
\* this judge (five of the nine pairings, each value of each field among them)
AcceptedVerdicts(k) ==
    LET tag == <<"1", "2", "3", "4", "5">>[k]
    IN {normalize_jury_scores(
            MkVerdict(PyStr(w), PyInt(2), PyInt(1), Absent, Absent, rg[1], rg[2]),
            IdentityMap) :
          w \in {"Side A", "Side B"},
          rg \in {<<Absent, Absent>>, <<Absent, PyStr("g" \o tag)>>,
                  <<PyStr(""), Absent>>, <<PyStr("r" \o tag), PyStr("")>>,
                  <<PyStr("r" \o tag), PyStr("g" \o tag)>>}}

AggregateInputs ==
    LET F[n \in 0..MaxPanel] ==
            IF n = 0 THEN {<<>>}
            ELSE {Append(s, v) : s \in F[n - 1], v \in AcceptedVerdicts(n)}
    IN UNION {F[n] : n \in 0..MaxPanel}

InitAggregate ==
    /\ pc = "fn"
    /\ fn_in \in AggregateInputs
    /\ fn_out = <<>>
    /\ RunIdle

\* lines 440-453 on jury_parsed_list = fn_in
ApplyAggregate ==
    /\ pc = "fn"
    /\ LET winners == Winners(fn_in)
           final_winner == FinalWinner(winners)
           rep == Representative(fn_in, final_winner)
       IN fn_out' = [fn |-> "aggregate",
                     winner_counts |-> WinnerCounts(winners),
                     result |-> [general |-> rep.general_summary,
                                 winner |-> final_winner,
                                 winning_reason |-> rep.winner_reason]]
    /\ pc' = "fn_done"
    /\ UNCHANGED <<fn_in, RunVars>>

NextAggregate == ApplyAggregate

SpecAggregate == InitAggregate /\ [][NextAggregate]_vars

\* the positions of fn_in whose winner is the result's winner
Matches == {k \in 1..Len(fn_in) : Get(fn_in[k], "winner") = fn_out.result.winner}

\* a field of a verdict as the record shows it: empty when missing or empty
Shown(verdict, key) ==
    IF Get(verdict, key) \in {None, PyStr("")} THEN PyStr("") ELSE Get(verdict, key)

\* C14: winning_reason and general are the reasoning and general of the first
\* verdict, in judge order, whose winner is the result's winner, empty when that
\* verdict's field is missing or empty, whatever later verdicts for the same winner
\* say; both are empty when there is no verdict.
C14_FirstMatchOnly ==
    pc = "fn_done" /\ fn_out.fn = "aggregate" =>
        IF Matches = {}
        THEN /\ fn_in = <<>>
             /\ fn_out.result.winning_reason = PyStr("")
             /\ fn_out.result.general = PyStr("")
        ELSE LET first == CHOOSE k \in Matches : \A m \in Matches : k <= m IN
             /\ fn_out.result.winning_reason = Shown(fn_in[first], "reasoning")
             /\ fn_out.result.general = Shown(fn_in[first], "general")

\* the first verdict for the winner is the second judge's and has no reasoning;
\* the third judge's, for the same winner, has one
C14_Witness ==
    /\ pc = "fn_done"
    /\ fn_out.fn = "aggregate"
    /\ Len(fn_in) = 3
    /\ Matches = {2, 3}
    /\ Get(fn_in[2], "reasoning") = None
    /\ Get(fn_in[2], "general") = PyStr("g2")
    /\ Get(fn_in[3], "reasoning") = PyStr("r3")
    /\ fn_out.result.winning_reason = PyStr("")
    /\ fn_out.result.general = PyStr("g2")

-----------------------------------------------------------------------------
(* A run without a valid verdict *)

\* C15: a run whose 8 debater calls all returned and that ended without a valid
\* verdict (whatever the judges answered, malformed output included) has written
\* exactly one record, with empty winner, winning_reason and general and both
\* winner counts 0.
C15_RecordWithoutVerdict ==
    /\ Len(rounds_log) = 2 * NumRounds
    /\ pc \in {"done", "raised"}
    /\ jury_parsed_list = <<>>
    => /\ pc = "done"
       /\ Len(out_jsonl) = Len(file_at_start) + 1
       /\ ThisRecord.result = [general |-> PyStr(""), winner |-> PyStr(""),
                               winning_reason |-> PyStr("")]
       /\ ThisRecord.evaluation.winner_counts = [w \in {"Side A", "Side B"} |-> 0]

-----------------------------------------------------------------------------
(* The run with usage payloads that differ from call to call *)

\* response.usage.model_dump() with the four token counts
MkUsage(completion, prompt, total, reasoning) ==
    PyDict([completion_tokens |-> PyInt(completion), prompt_tokens |-> PyInt(prompt),
            total_tokens |-> PyInt(total), reasoning_tokens |-> PyInt(reasoning)])

\* usage of a debater call: none, or counts
TokenDebaterUsages == {None, MkUsage(2, 1, 3, 1)}

\* usage of a judge call: none, or counts
TokenJudgeUsages == {None, MkUsage(5, 10, 15, 4)}

\* a judge's answer: a verdict that is accepted, or one that is dropped
TokenJudgeResponses ==
    {Text(<<Value(PyDict(MkVerdict(PyStr("Side A"), PyInt(2), PyInt(1),
                                   Absent, Absent, Absent, Absent)))>>),
     Text(<<Tok("prose")>>)}

NextTokens ==
    \/ PromptA
    \/ ReturnA({PyStr(ReplyText("A", i))}, TokenDebaterUsages)
    \/ FailA
    \/ PromptB
    \/ ReturnB({PyStr(ReplyText("B", i))}, TokenDebaterUsages)
    \/ FailB
    \/ JuryPrompt
    \/ JuryReturn(TokenJudgeResponses, TokenJudgeUsages)
    \/ JuryFail
    \/ Finish({"id1"})

SpecTokens == Init /\ [][NextTokens]_vars

TokenFields ==
    {"completion_tokens", "prompt_tokens", "total_tokens", "reasoning_tokens"}

\* the record's key of the run-level total of a token field
TotalKey(key) == IF key = "total_tokens" THEN key ELSE "total_" \o key

\* s[1] + ... + s[Len(s)]
Sum(s) ==
    LET F[n \in 0..Len(s)] == IF n = 0 THEN 0 ELSE F[n - 1] + s[n] IN F[Len(s)]

\* the count a usage payload reports under key, 0 when it reports none
Reported(usage, key) ==
    IF usage = None THEN 0
    ELSE IF key \notin DOMAIN usage[2] THEN 0
    ELSE IF usage[2][key] = None THEN 0
    ELSE usage[2][key][2]

\* C16: in the record of a finished run each token total is the sum of that field
\* over the 8 round entries plus the sum of what every judge call that returned
\* reported, accepted or not; so it is at least the sum over rounds plus
\* evaluation.juries, and equal to it when every configured judge is in juries.
C16_TotalsCoverAllCalls ==
    pc = "done" =>
        LET rec == ThisRecord
            Rounds(key) == Sum([k \in 1..Len(rec.rounds) |-> rec.rounds[k][key]])
            Juries(key) == Sum([k \in 1..Len(rec.evaluation.juries) |->
                                   rec.evaluation.juries[k][key]])
            JudgeCalls(key) == Sum([k \in 1..Len(jury_usages) |->
                                      Reported(jury_usages[k], key)])
        IN /\ Len(rec.rounds) = 2 * NumRounds
           /\ Len(jury_usages) = Len(judge_configs)
           /\ \A key \in TokenFields :
                /\ rec[TotalKey(key)] = Rounds(key) + JudgeCalls(key)
                /\ rec[TotalKey(key)] >= Rounds(key) + Juries(key)
                /\ Len(rec.evaluation.juries) = Len(rec.jury)
                     => rec[TotalKey(key)] = Rounds(key) + Juries(key)

\* the first of two judges reported usage and was dropped
C16_Witness ==
    /\ pc = "done"
    /\ Len(judge_configs) = 2
    /\ Len(ThisRecord.evaluation.juries) = 1
    /\ ThisRecord.evaluation.juries[1].model = "judge2"
    /\ jury_usages = <<MkUsage(5, 10, 15, 4), MkUsage(5, 10, 15, 4)>>
    /\ ThisRecord.rounds[1].total_tokens = 3
    /\ ThisRecord.rounds[2].total_tokens = 0
    /\ ThisRecord.total_reasoning_tokens > 4

-----------------------------------------------------------------------------
(* extract_usage_fields and the accumulation of the totals applied on their own *)

\* the most calls whose usage is accumulated
MaxCalls == 3

\* a usage dict with the given values, absent keys left out
MkPayload(total_cost, cost, completion, prompt, total, reasoning) ==
    LET all == [total_cost |-> total_cost, cost |-> cost,
                completion_tokens |-> completion, prompt_tokens |-> prompt,
                total_tokens |-> total, reasoning_tokens |-> reasoning]
    IN PyDict([k \in {x \in DOMAIN all : all[x] # Absent} |-> all[k]])

\* usage of a call: None, or a dict (the empty dict among them) in which every key
\* is absent, null or a number
UsagePayloads ==
    {None} \cup
    {MkPayload(tc, c, co, p, t, r) :
        tc \in {Absent, None, PyInt(0), PyInt(3)}, c \in {Absent, None, PyInt(7)},
        co \in {Absent, None, PyInt(2)}, p \in {Absent, None, PyInt(1)},
        t \in {Absent, None, PyInt(0), PyInt(3)}, r \in {Absent, None, PyInt(1)}}

\* the usages of a few calls, each different from the others
CallUsages ==
    {None, MkUsage(2, 1, 3, 1), MkUsage(5, 10, 15, 4),
     MkPayload(Absent, Absent, PyInt(6), None, PyInt(20), Absent)}

UsageInputs ==
    LET F[n \in 0..MaxCalls] ==
            IF n = 0 THEN {<<>>}
            ELSE {Append(s, u) : s \in F[n - 1], u \in CallUsages}
    IN {<<u>> : u \in UsagePayloads} \cup UNION {F[n] : n \in 2..MaxCalls}

\* lines 334-338, 375-379, 403-407 call after call: the totals after the calls
\* whose usages are payloads, starting from t
Accumulate(t, payloads) ==
    LET F[n \in 0..Len(payloads)] ==
            IF n = 0 THEN t
            ELSE AddUsage(F[n - 1], extract_usage_fields(payloads[n]))
    IN F[Len(payloads)]

InitUsage ==
    /\ pc = "fn"
    /\ fn_in \in UsageInputs
    /\ fn_out = <<>>
    /\ RunIdle

\* extract_usage_fields(usage) on one payload
ApplyExtract ==
    /\ pc = "fn"
    /\ Len(fn_in) = 1
    /\ fn_out' = [fn |-> "extract_usage_fields", val |-> extract_usage_fields(fn_in[1])]
    /\ pc' = "fn_done"
    /\ UNCHANGED <<fn_in, RunVars>>

\* the totals of a run whose calls report fn_in, in this order
ApplyAccumulate ==
    /\ pc = "fn"
    /\ fn_out' = [fn |-> "accumulate", val |-> Accumulate(ZeroTotals, fn_in)]
    /\ pc' = "fn_done"
    /\ UNCHANGED <<fn_in, RunVars>>

NextUsage ==
    \/ ApplyExtract
    \/ ApplyAccumulate

SpecUsage == InitUsage /\ [][NextUsage]_vars

\* the permutations of 1..n
Perms(n) == {p \in [1..n -> 1..n] : \A a, b \in 1..n : p[a] = p[b] => a = b}

\* the four token totals of t
TokenTotals(t) == [key \in TokenFields |-> t[TotalKey(key)]]

\* C17: the four token totals do not depend on the order of the calls: the usages
\* accumulated in any permutation give the same token totals, and so do the
\* usages split into any two groups, one accumulated on top of the other.
C17_AccumulationOrderFree ==
    pc = "fn_done" /\ fn_out.fn = "accumulate" =>
        LET n == Len(fn_in)
            Pick(idx) == [k \in 1..Len(idx) |-> fn_in[idx[k]]]
        IN /\ \A p \in Perms(n) :
                TokenTotals(Accumulate(ZeroTotals, Pick(p))) = TokenTotals(fn_out.val)
           /\ \A p \in Perms(n), m \in 0..n :
                TokenTotals(Accumulate(Accumulate(ZeroTotals, Pick(SubSeq(p, m + 1, n))),
                                       Pick(SubSeq(p, 1, m))))
                  = TokenTotals(fn_out.val)
           /\ \A key \in TokenFields :
                fn_out.val[TotalKey(key)]
                  = Sum([k \in 1..n |-> Reported(fn_in[k], key)])

C17_Witness ==
    /\ pc = "fn_done"
    /\ fn_out.fn = "accumulate"
    /\ fn_in = <<MkUsage(5, 10, 15, 4), None, MkUsage(2, 1, 3, 1)>>
    /\ TokenTotals(fn_out.val) = TokenTotals(Accumulate(ZeroTotals,
                                    <<MkUsage(2, 1, 3, 1), MkUsage(5, 10, 15, 4), None>>))
    /\ fn_out.val.total_tokens = 18

\* C18: extract_usage_fields has a result for every payload: all fields are zero
\* when the usage is None or empty; a token field that is absent or null is zero
\* and every other token field is the payload's; the cost is total_cost's when
\* total_cost has a value and otherwise cost's, zero when neither has one.
C18_MissingUsageIsZero ==
    pc = "fn_done" /\ fn_out.fn = "extract_usage_fields" =>
        LET usage == fn_in[1]
            out == fn_out.val
            Has(key) == usage # None /\ key \in DOMAIN usage[2] /\ usage[2][key] # None
        IN /\ DOMAIN out = TokenFields \cup {"cost", "reasoning"}
           /\ out.reasoning = ""
           /\ usage = None \/ usage = PyDict(EmptyDict) =>
                out.cost = 0 /\ \A key \in TokenFields : out[key] = 0
           /\ \A key \in TokenFields :
                out[key] = (IF Has(key) THEN usage[2][key][2] ELSE 0)
           /\ out.cost = (IF Has("total_cost") THEN usage[2]["total_cost"][2]
                          ELSE IF Has("cost") THEN usage[2]["cost"][2]
                          ELSE 0)

\* prompt_tokens is null, reasoning_tokens absent, both costs present
C18_Witness ==
    /\ pc = "fn_done"
    /\ fn_out.fn = "extract_usage_fields"
    /\ fn_in[1] = MkPayload(PyInt(3), PyInt(7), PyInt(2), None, PyInt(3), Absent)
    /\ fn_out.val = [cost |-> 3, completion_tokens |-> 2, prompt_tokens |-> 0,
                     total_tokens |-> 3, reasoning |-> "", reasoning_tokens |-> 0]

-----------------------------------------------------------------------------
(* run_debate called more than once on the same out.jsonl *)

\* the most records out.jsonl gets
MaxRuns == 2

\* lines 254-293: run_debate is called again, with the same arguments, after the
\* call before it has returned or raised; out.jsonl is what that call left
NewRun ==
    /\ pc \in {"done", "raised"}
    /\ Len(out_jsonl) < MaxRuns
    /\ pc' = "prompt_a"
    /\ raised' = ""
    /\ i' = 1
    /\ history_a' = <<>>
    /\ history_b' = <<>>
    /\ messages_a' = <<[role |-> "system", content |-> SystemPrompt]>>
    /\ messages_b' = <<[role |-> "system", content |-> SystemPrompt]>>
    /\ variables_a' = EmptyDict
    /\ variables_b' = EmptyDict
    /\ rounds_log' = <<>>
    /\ totals' = ZeroTotals
    /\ j' = 1
    /\ jury_result' = NoJuryResult
    /\ jury_results' = <<>>
    /\ jury_parsed_list' = <<>>
    /\ trace' = <<>>
    /\ responses' = <<>>
    /\ jury_usages' = <<>>
    /\ file_at_start' = out_jsonl
    /\ UNCHANGED <<blind_jury, judge_configs, out_jsonl, fn_in, fn_out>>

NextRuns ==
    \/ PromptA
    \/ ReturnA({PyStr(ReplyText("A", i))}, DebaterUsages)
    \/ FailA
    \/ PromptB
    \/ ReturnB({PyStr(ReplyText("B", i))}, DebaterUsages)
    \/ FailB
    \/ JuryPrompt
    \/ JuryReturn(TokenJudgeResponses, JudgeUsages)
    \/ JuryFail
    \/ Finish(Ids)
    \/ NewRun

SpecRuns == Init /\ [][NextRuns]_vars

\* C19: a call of run_debate appends to out.jsonl at most once, and does so when
\* it completes; the append comes after all 8 debater calls have returned and
\* every judge has been evaluated; a step never rewrites or removes a line that
\* is in the file, so a record stays as it was written.
C19_AppendOnceAtTheEnd ==
    [][ /\ Len(out_jsonl') >= Len(out_jsonl)
        /\ SubSeq(out_jsonl', 1, Len(out_jsonl)) = out_jsonl
        /\ out_jsonl' # out_jsonl =>
             /\ Len(out_jsonl') = Len(out_jsonl) + 1
             /\ out_jsonl = file_at_start
             /\ file_at_start' = file_at_start
             /\ pc = "jury" /\ pc' = "done"
             /\ Len(SelectSeq(trace, LAMBDA e : e.side \in {"A", "B"} /\ e.ev = "return"))
                  = 2 * NumRounds
             /\ Len(rounds_log) = 2 * NumRounds
             /\ Len(SelectSeq(trace, LAMBDA e : e.side = "J" /\ e.ev = "return"))
                  = Len(judge_configs)
             /\ out_jsonl'[Len(out_jsonl')][2].rounds = rounds_log
        /\ pc # "done" /\ pc' = "done" => Len(out_jsonl') = Len(file_at_start') + 1
        /\ pc' = "raised" => out_jsonl' = file_at_start'
        /\ Len(out_jsonl') <= Len(file_at_start') + 1 ]_vars

\* the second call has appended its record after the record of the first
C19_Witness ==
    /\ pc = "done"
    /\ Len(file_at_start) = 1
    /\ Len(out_jsonl) = 2
    /\ out_jsonl[1] = file_at_start[1]
    /\ out_jsonl[2][2].rounds = rounds_log

\* C20: the records written by the calls of run_debate of one process have
\* different ids.
C20_IdsDifferAcrossCalls ==
    \A a, b \in 1..Len(out_jsonl) : a # b => out_jsonl[a][2].id # out_jsonl[b][2].id

-----------------------------------------------------------------------------
(* __main__: the configuration read from the environment, then run_debate *)

\* the value of a comma-separated variable, as the items between its commas
Csv(items) == <<"csv", items>>

\* the result of a helper that can raise ValueError
Raised == [raises |-> TRUE, val |-> None]
Returned(v) == [raises |-> FALSE, val |-> v]

\* lines 25-29: os.getenv(key) is None when the variable is not set
require_env(env, key) ==
    IF ~Truthy(env[key]) THEN Raised ELSE Returned(env[key])

\* str.strip().lower() on the values a backend variable takes here
strip_lower(s) ==
    CASE s = " Online " -> "online"
      [] s = "LOCAL"    -> "local"
      [] OTHER          -> s

\* faulty variant: any backend value other than "local" is taken as online
resolve_backend_AnyValue(env, role) ==
    LET b == require_env(env, role \o "_BACKEND") IN
    IF b.raises THEN Raised
    ELSE LET backend == strip_lower(b.val[2])
             base_url == require_env(env, IF backend = "local" THEN "LOCAL_BASE_URL"
                                          ELSE "ONLINE_BASE_URL")
             model_name == require_env(env, role \o "_MODEL")
         IN IF base_url.raises \/ model_name.raises THEN Raised
            ELSE Returned([backend |-> backend, base_url |-> base_url.val,
                           model |-> model_name.val[2],
                           requires_api_key |-> backend = "online"])

\* lines 32-47
resolve_backend(env, role) ==
    LET b == require_env(env, role \o "_BACKEND") IN
    IF b.raises THEN Raised
    ELSE LET backend == strip_lower(b.val[2])
             base_url == require_env(env, IF backend = "local" THEN "LOCAL_BASE_URL"
                                          ELSE "ONLINE_BASE_URL")
             model_name == require_env(env, role \o "_MODEL")
         IN IF backend \notin {"local", "online"} THEN Raised
            ELSE IF base_url.raises \/ model_name.raises THEN Raised
            ELSE Returned([backend |-> backend, base_url |-> base_url.val,
                           model |-> model_name.val[2],
                           requires_api_key |-> backend = "online"])

\* lines 21-22 and 50-56: the client, or ValueError when a key is required and
\* API_KEY is not set
build_client(env, base_url, requires_api_key) ==
    LET api_key == Or(env["API_KEY"], PyStr("")) IN
    IF requires_api_key /\ ~Truthy(api_key) THEN Raised
    ELSE Returned([base_url |-> base_url, api_key |-> Or(api_key, PyStr("no-need-api-key"))])

\* lines 59-60: the items that are not empty (the items here carry no blanks)
parse_list_env(env, key) ==
    LET v == require_env(env, key) IN
    IF v.raises THEN Raised
    ELSE Returned(SelectSeq(v.val[2], LAMBDA item : item # ""))

\* lines 63-82
build_judge_configs(env) ==
    LET models == parse_list_env(env, "JUDGE_MODELS")
        backends == parse_list_env(env, "JUDGE_BACKENDS")
    IN IF models.raises \/ backends.raises THEN Raised
       ELSE IF Len(models.val) # Len(backends.val) THEN Raised
       ELSE LET n == Len(models.val)
                Url(k) == require_env(env, IF backends.val[k] = "local"
                                           THEN "LOCAL_BASE_URL" ELSE "ONLINE_BASE_URL")
            IN IF \E k \in 1..n : backends.val[k] \notin {"local", "online"} \/ Url(k).raises
               THEN Raised
               ELSE Returned([k \in 1..n |->
                        [model |-> models.val[k], backend |-> backends.val[k],
                         base_url |-> Url(k).val,
                         requires_api_key |-> backends.val[k] = "online"]])

\* os.environ after load_dotenv: every variable unset (None) or set; Csv(<<"">>)
\* is a list variable set to blanks only
Environments ==
    [TOPIC : {None, PyStr("X")},
     CONDITIONS : {None},
     MODEL_A_BACKEND : {None, PyStr("local"), PyStr(" Online "), PyStr("cloud")},
     MODEL_A_MODEL : {None, PyStr(model_a)},
     MODEL_B_BACKEND : {PyStr("LOCAL"), PyStr("online")},
     MODEL_B_MODEL : {PyStr(model_b)},
     LOCAL_BASE_URL : {None, PyStr("http://localhost")},
     ONLINE_BASE_URL : {None, PyStr("https://online")},
     API_KEY : {None, PyStr("key")},
     JUDGE_MODELS : {None, Csv(<<"">>), Csv(<<"judge1">>), Csv(<<"judge1", "", "judge2">>)},
     JUDGE_BACKENDS : {None, Csv(<<"">>), Csv(<<"local">>), Csv(<<"online">>),
                       Csv(<<"Local">>), Csv(<<"online", "local">>)},
     JUDGE_BLIND : {None, PyStr("false")}]

InitConfig ==
    /\ pc = "main"
    /\ fn_in \in Environments
    /\ fn_out = <<>>
    /\ RunIdle

\* lines 491-541: read the configuration, build the clients, call run_debate
\* (lines 254-293); a ValueError of a helper ends the program
Main ==
    /\ pc = "main"
    /\ LET env == fn_in
           topic == require_env(env, "TOPIC")
           model_a_config == resolve_backend(env, "MODEL_A")
           model_b_config == resolve_backend(env, "MODEL_B")
           configs == build_judge_configs(env)
           blind == Or(env["JUDGE_BLIND"], PyStr("true")) = PyStr("true")
           ClientRaises(cfg) == build_client(env, cfg.base_url, cfg.requires_api_key).raises
       IN IF \/ topic.raises \/ model_a_config.raises \/ model_b_config.raises
             \/ configs.raises
             \/ ClientRaises(model_a_config.val) \/ ClientRaises(model_b_config.val)
             \/ \E k \in 1..Len(configs.val) : ClientRaises(configs.val[k])
          THEN /\ Raise("ValueError")
               /\ UNCHANGED <<i, blind_jury, judge_configs, messages_a, messages_b>>
          ELSE /\ pc' = "prompt_a"
               /\ i' = 1
               /\ blind_jury' = blind
               /\ judge_configs' = [k \in 1..Len(configs.val) |-> configs.val[k].model]
               /\ messages_a' = <<[role |-> "system", content |-> SystemPrompt]>>
               /\ messages_b' = <<[role |-> "system", content |-> SystemPrompt]>>
               /\ UNCHANGED raised
    /\ UNCHANGED <<history_a, history_b, variables_a, variables_b, rounds_log, totals,
                   j, jury_result, jury_results, jury_parsed_list, out_jsonl, trace,
                   responses, jury_usages, file_at_start, fn_in, fn_out>>

NextConfig ==
    \/ Main
    \/ PromptA
    \/ ReturnA({PyStr(ReplyText("A", i))}, DebaterUsages)
    \/ FailA
    \/ PromptB
    \/ ReturnB({PyStr(ReplyText("B", i))}, DebaterUsages)
    \/ FailB
    \/ JuryPrompt
    \/ JuryReturn(TokenJudgeResponses, JudgeUsages)
    \/ JuryFail
    \/ Finish({"id1"})

SpecConfig == InitConfig /\ [][NextConfig]_vars

\* what the configuration lacks: a required variable, a valid backend value, the
\* base URL of a backend in use, judge lists of one length, the key of an online
\* backend
ConfigError(env) ==
    LET Unset(key) == env[key] \in {None, PyStr("")}
        Items(key) == SelectSeq(env[key][2], LAMBDA item : item # "")
        DebaterBackends ==
            {strip_lower(env[r \o "_BACKEND"][2]) :
                r \in {x \in {"MODEL_A", "MODEL_B"} : ~Unset(x \o "_BACKEND")}}
        JudgeBackends ==
            IF Unset("JUDGE_BACKENDS") THEN {}
            ELSE {Items("JUDGE_BACKENDS")[k] : k \in 1..Len(Items("JUDGE_BACKENDS"))}
        Used == DebaterBackends \cup JudgeBackends
    IN \/ Unset("TOPIC")
       \/ \E r \in {"MODEL_A", "MODEL_B"} : Unset(r \o "_BACKEND") \/ Unset(r \o "_MODEL")
       \/ Unset("JUDGE_MODELS") \/ Unset("JUDGE_BACKENDS")
       \/ ~(Used \subseteq {"local", "online"})
       \/ "local" \in Used /\ Unset("LOCAL_BASE_URL")
       \/ "online" \in Used /\ Unset("ONLINE_BASE_URL")
       \/ Len(Items("JUDGE_MODELS")) # Len(Items("JUDGE_BACKENDS"))
       \/ "online" \in Used /\ Unset("API_KEY")

\* C21: with a configuration error the program ends with an error in __main__,
\* before run_debate: no backend call has been made and out.jsonl has no record.
C21_ConfigErrorIsFatal ==
    pc # "main" /\ ConfigError(fn_in) =>
        /\ pc = "raised"
        /\ raised = "ValueError"
        /\ trace = <<>>
        /\ rounds_log = <<>>
        /\ out_jsonl = <<>>

\* everything is set but the key that the online judge needs
C21_Witness ==
    /\ pc = "raised"
    /\ raised = "ValueError"
    /\ trace = <<>>
    /\ fn_in.TOPIC = PyStr("X")
    /\ fn_in.MODEL_A_BACKEND = PyStr("local")
    /\ fn_in.MODEL_A_MODEL = PyStr(model_a)
    /\ fn_in.MODEL_B_BACKEND = PyStr("LOCAL")
    /\ fn_in.LOCAL_BASE_URL # None
    /\ fn_in.ONLINE_BASE_URL # None
    /\ fn_in.JUDGE_MODELS = Csv(<<"judge1">>)
    /\ fn_in.JUDGE_BACKENDS = Csv(<<"online">>)
    /\ fn_in.API_KEY = None

-----------------------------------------------------------------------------
(* The two lists of the evaluation *)

\* the positions in judge_configs of the judges whose answer was valid, ascending
AcceptedOrder ==
    SelectSeq([k \in 1..Len(responses) |-> k], LAMBDA k : ValidAnswer(responses[k]))

\* C22: jury_results and jury_parsed_list have one length; their k-th entries are
\* of the k-th judge, in configured order, whose answer was valid: the entry of
\* jury_results names that judge and holds its answer, and the entry of
\* jury_parsed_list is that answer's verdict; the record's two lists are these.
C22_ParallelListsInJudgeOrder ==
    /\ Len(jury_results) = Len(AcceptedOrder)
    /\ Len(jury_parsed_list) = Len(AcceptedOrder)
    /\ \A m \in 1..Len(AcceptedOrder) :
         LET k == AcceptedOrder[m]
             raw == parse_jury_response(Or(responses[k], Text(<<>>)))[2]
         IN /\ m <= Len(jury_results) => /\ jury_results[m].model = judge_configs[k]
                                         /\ jury_results[m].content = responses[k]
            /\ m <= Len(jury_parsed_list) =>
                 /\ Get(jury_parsed_list[m], "winner") = TrueWinner(responses[k])
                 /\ Get(jury_parsed_list[m], "reasoning") = Get(raw, "reasoning")
    /\ pc = "done" => /\ ThisRecord.evaluation.juries = jury_results
                      /\ ThisRecord.evaluation.parsed = jury_parsed_list

\* the first judge was dropped, so both lists start with the second judge
C22_Witness ==
    /\ pc = "done"
    /\ Len(judge_configs) = 2
    /\ AcceptedOrder = <<2>>
    /\ Len(ThisRecord.evaluation.juries) = 1
    /\ Len(ThisRecord.evaluation.parsed) = 1
    /\ ThisRecord.evaluation.juries[1].model = "judge2"
    /\ Get(ThisRecord.evaluation.parsed[1], "winner") = TrueWinner(responses[2])

-----------------------------------------------------------------------------
(* The message threads of the debaters *)

\* the last call of debater X has its prompt in the thread and no answer: it is in
\* flight, or it failed
CallOpen(side) ==
    LET d == SelectSeq(trace, LAMBDA e : e.side = side)
    IN d # <<>> /\ d[Len(d)].ev \in {"prompt", "fail"}

\* the thread of debater X is well-formed: the system message, then user and
\* assistant messages in turn; the user messages are X's rendered prompts of
\* rounds 1, 2, ..., the assistant messages are X's answers of these rounds
WellFormedThread(messages, history, side, dir, pending) ==
    /\ Len(messages) = 1 + 2 * Len(history) + (IF pending THEN 1 ELSE 0)
    /\ messages[1] = [role |-> "system", content |-> SystemPrompt]
    /\ \A n \in 2..Len(messages) :
         LET round == n \div 2 IN
         IF n % 2 = 0
         THEN /\ messages[n].role = "user"
              /\ messages[n].content[1] = "rendered"
              /\ messages[n].content[2].template = Template(dir, round)
         ELSE /\ messages[n].role = "assistant"
              /\ messages[n].content = Or(history[round].content, PyStr(""))
              /\ messages[n].content \in {PyStr(""), PyStr(ReplyText(side, round))}
              /\ messages[n].content = LogEntry(round, side).content

\* C23: at every point of the run each debater's thread is its own and is
\* well-formed: one system message, the same for both, then user and assistant
\* messages in turn; with k rounds completed it has 1 + 2k messages (and the
\* prompt of round k + 1 once that call has been made); its assistant messages
\* are the debater's own k answers in round order; what the other debater said is
\* in it only as a value bound in a rendered prompt.
C23_PrivateWellFormedThreads ==
    pc \notin {"fn", "fn_done", "main"} =>
        /\ WellFormedThread(messages_a, history_a, "A", "model_a", CallOpen("A"))
        /\ WellFormedThread(messages_b, history_b, "B", "model_b", CallOpen("B"))
        /\ messages_a[1] = messages_b[1]
        /\ \A n \in 2..Len(messages_a) :
             messages_a[n].content \notin {PyStr(ReplyText("B", r)) : r \in 1..NumRounds}
        /\ \A n \in 2..Len(messages_b) :
             messages_b[n].content \notin {PyStr(ReplyText("A", r)) : r \in 1..NumRounds}
        /\ \A r \in 2..Len(history_a) :
             messages_a[2 * r].content[2].bound[OpponentKey("MODEL_B", r - 1)]
               = PyStr(ReplyText("B", r - 1))

C23_Witness ==
    /\ pc = "prompt_b"
    /\ i = 3
    /\ Len(messages_a) = 7
    /\ Len(messages_b) = 5
    /\ messages_a[7] = [role |-> "assistant", content |-> PyStr("a3")]
    /\ messages_a[6].content[2].bound[OpponentKey("MODEL_B", 2)] = PyStr("b2")
    /\ messages_b[5] = [role |-> "assistant", content |-> PyStr("b2")]

-----------------------------------------------------------------------------
(* The shape of a normalized verdict *)

\* C24: the normalized verdict has the fields of the judge's object, blind or
\* not: whatever the side_map, normalize_jury_scores returns an object with
\* exactly the keys of the object it was given.
C24_SameShapeBlindOrNot ==
    pc = "fn_done" /\ fn_out.fn = "normalize_jury_scores" =>
        DOMAIN fn_out.val = DOMAIN fn_in[1]

-----------------------------------------------------------------------------
(* The calls of the judges *)

\* the backend calls made so far: the prompts handed to call_model
Calls(sides) == SelectSeq(trace, LAMBDA e : e.side \in sides /\ e.ev = "prompt")

\* a judge is called only with both histories complete
JudgesAfterHistories ==
    JudgeEvents # <<>> => Len(history_a) = NumRounds /\ Len(history_b) = NumRounds

\* the conversation of the judge in flight is a system and a user message
JudgeConversation ==
    pc = "jury_call" =>
        /\ Len(jury_result.messages) = 2
        /\ jury_result.messages[1] =
             [role |-> "system", content |-> PyStr("You are a neutral debate judge.")]
        /\ jury_result.messages[2] = [role |-> "user", content |-> jury_result.prompt]

\* every configured judge has been called exactly once, in configured order
OneCallPerJudge ==
    /\ Len(Calls({"J"})) = Len(judge_configs)
    /\ \A k \in 1..Len(judge_configs) : Calls({"J"})[k].round = k

\* C25: no judge is called before both histories have their 4 answers; a judge's
\* conversation is a system and a user message; a run that has ended without a
\* failed call has called every configured judge exactly once; a complete run
\* has made 8 + N calls.
C25_OneCallPerJudge ==
    /\ JudgesAfterHistories
    /\ JudgeConversation
    /\ ( /\ pc \in {"done", "raised"}
         /\ \A k \in 1..Len(trace) : trace[k].ev # "fail" )
       => OneCallPerJudge
    /\ pc = "done" =>
         Len(Calls({"A", "B", "J"})) = 2 * NumRounds + Len(judge_configs)

-----------------------------------------------------------------------------
(* Round results stay as they were appended *)

\* s is the beginning of t
IsPrefix(s, t) == Len(s) <= Len(t) /\ SubSeq(t, 1, Len(s)) = s

\* C26: every step leaves the entries of rounds_log, history_a and history_b
\* where and as they are: a list grows by at most one entry at its end; a step of
\* the judge loop, blind or not, and the final step leave all three unchanged,
\* and the record holds rounds_log as it is.
C26_RoundResultsAppendOnly ==
    [][ /\ IsPrefix(rounds_log, rounds_log') /\ Len(rounds_log') <= Len(rounds_log) + 1
        /\ IsPrefix(history_a, history_a') /\ Len(history_a') <= Len(history_a) + 1
        /\ IsPrefix(history_b, history_b') /\ Len(history_b') <= Len(history_b) + 1
        /\ pc \in {"jury", "jury_call", "done", "raised"} =>
             UNCHANGED <<rounds_log, history_a, history_b>>
        /\ pc' = "done" => ThisRecord'.rounds = rounds_log ]_vars

\* a blind judge is in flight, shown B's answers as Side A; the histories and
\* the log are as the rounds left them
C26_Witness ==
    /\ pc = "jury_call"
    /\ blind_jury
    /\ j = 2
    /\ jury_result.prompt[2].bound[<<"SIDE_A_TEXT", "", 0>>] = merge_responses(history_b)
    /\ Len(rounds_log) = 2 * NumRounds
    /\ \A r \in 1..NumRounds : /\ history_a[r].content = PyStr(ReplyText("A", r))
                               /\ history_b[r].content = PyStr(ReplyText("B", r))
                               /\ LogEntry(r, "A").content = PyStr(ReplyText("A", r))

-----------------------------------------------------------------------------
(* Acceptance and consistency of de-blinding, on one object *)

\* C27: the same judge object is accepted in a blind run exactly when it is
\* accepted in a run that is not blind (and raises in the one exactly when it
\* raises in the other): the remapped winner is a side and both totals are
\* there in the one exactly when they are in the other.
C27_AcceptanceIgnoresBlind ==
    pc = "fn_done" /\ fn_out.fn = "HandleVerdict" =>
        LET p == fn_out.plain
            b == fn_out.blind
        IN /\ p.outcome = "accept" <=> b.outcome = "accept"
           /\ p.outcome = b.outcome
           /\ WinnerIsSide(p.jury_parsed) <=> WinnerIsSide(b.jury_parsed)
           /\ ( /\ Get(p.jury_parsed, "total_score_A") # None
                /\ Get(p.jury_parsed, "total_score_B") # None )
              <=> ( /\ Get(b.jury_parsed, "total_score_A") # None
                    /\ Get(b.jury_parsed, "total_score_B") # None )

\* an object with an extra key and no reasoning, accepted both ways
C27_Witness ==
    /\ pc = "fn_done"
    /\ fn_out.fn = "HandleVerdict"
    /\ "confidence" \in DOMAIN fn_in[1]
    /\ "reasoning" \notin DOMAIN fn_in[1]
    /\ Get(fn_in[1], "winner") = PyStr("Side A")
    /\ fn_out.plain.outcome = "accept"
    /\ fn_out.blind.outcome = "accept"
    /\ Get(fn_out.blind.jury_parsed, "winner") = PyStr("Side B")

\* the label under which true side t was shown to the judge
ShownAs(side_map, t) == CHOOSE l \in {"A", "B"} : side_map[l] = t

\* C28: in an accepted verdict, blind or not, the winner is true side T exactly
\* when the judge named the label under which T was shown, and total_score_T is
\* the total the judge gave that label; so a raw winner with the strictly higher
\* raw total gives a normalized winner with the strictly higher normalized total.
C28_WinnerAndScoresAgree ==
    pc = "fn_done" /\ fn_out.fn = "HandleVerdict" =>
        \A run \in {[map |-> IdentityMap, h |-> fn_out.plain],
                    [map |-> SwapMap, h |-> fn_out.blind]} :
            run.h.outcome = "accept" =>
                LET raw == fn_in[1]
                    norm == run.h.jury_parsed
                    Total(v, l) == Get(v, "total_score_" \o l)[2]
                    Other(l) == IF l = "A" THEN "B" ELSE "A"
                    RawL == IF raw.winner = PyStr("Side A") THEN "A" ELSE "B"
                    NormT == IF Get(norm, "winner") = PyStr("Side A") THEN "A" ELSE "B"
                IN /\ \A t \in {"A", "B"} :
                        /\ Get(norm, "winner") = PyStr("Side " \o t)
                             <=> raw.winner = PyStr("Side " \o ShownAs(run.map, t))
                        /\ Get(norm, "total_score_" \o t)
                             = Get(raw, "total_score_" \o ShownAs(run.map, t))
                   /\ Total(raw, RawL) > Total(raw, Other(RawL))
                        => Total(norm, NormT) > Total(norm, Other(NormT))

\* blind: the judge gave Side A, which showed B, the win and the higher total
C28_Witness ==
    /\ pc = "fn_done"
    /\ fn_out.fn = "HandleVerdict"
    /\ Get(fn_in[1], "winner") = PyStr("Side A")
    /\ Get(fn_in[1], "total_score_A") = PyInt(2)
    /\ Get(fn_in[1], "total_score_B") = PyInt(1)
    /\ fn_out.blind.outcome = "accept"
    /\ Get(fn_out.blind.jury_parsed, "winner") = PyStr("Side B")
    /\ Get(fn_out.blind.jury_parsed, "total_score_B") = PyInt(2)
    /\ Get(fn_out.blind.jury_parsed, "total_score_A") = PyInt(1)

-----------------------------------------------------------------------------
(* The winner of a record *)

\* the side that is not w
OtherSide(w) == IF w = "Side A" THEN "Side B" ELSE "Side A"

\* C29: in every record of the file result.winner is "", Side A or Side B; it is
\* "" exactly when evaluation.parsed is empty; and when it is a side, that side's
\* count is at least 1 and at least the other side's, so that some verdict of
\* evaluation.parsed has the result's winner as its winner.
C29_WinnerBackedByAVerdict ==
    \A n \in 1..Len(out_jsonl) :
        LET rec == out_jsonl[n][2]
            counts == rec.evaluation.winner_counts
        IN /\ rec.result.winner \in {PyStr(""), PyStr("Side A"), PyStr("Side B")}
           /\ rec.result.winner = PyStr("") <=> rec.evaluation.parsed = <<>>
           /\ rec.result.winner # PyStr("") =>
                LET w == rec.result.winner[2] IN
                /\ counts[w] >= 1
                /\ counts[w] >= counts[OtherSide(w)]
                /\ \E k \in 1..Len(rec.evaluation.parsed) :
                        Get(rec.evaluation.parsed[k], "winner") = rec.result.winner

\* two accepted verdicts, one for each side: the record names Side A, and the
\* verdict that backs it is the second judge's
C29_Witness ==
    /\ pc = "done"
    /\ Len(ThisRecord.evaluation.parsed) = 2
    /\ ThisRecord.result.winner = PyStr("Side A")
    /\ ThisRecord.evaluation.winner_counts["Side A"] = 1
    /\ ThisRecord.evaluation.winner_counts["Side B"] = 1
    /\ Get(ThisRecord.evaluation.parsed[1], "winner") = PyStr("Side B")
    /\ Get(ThisRecord.evaluation.parsed[2], "winner") = PyStr("Side A")

-----------------------------------------------------------------------------
(* Termination *)

\* run_debate is sequential code: the interpreter takes the next step of the
\* function whenever there is one (lines 300-488), a backend call that has been
\* made returns or raises (line 104), and generate yields an id that is not in
\* seen_ids (lines 142-145).
\* what a judge call returns here: an accepted verdict, a dropped answer, no
\* content, and JSON that is not an object
LiveJudgeResponses == TokenJudgeResponses \cup {None, Text(<<Value(PyList)>>)}

NextLive ==
    \/ PromptA
    \/ ReturnA(DebaterContents("A", i), DebaterUsages)
    \/ FailA
    \/ PromptB
    \/ ReturnB(DebaterContents("B", i), DebaterUsages)
    \/ FailB
    \/ JuryPrompt
    \/ JuryReturn(LiveJudgeResponses, JudgeUsages)
    \/ JuryFail
    \/ Finish(Ids)

SpecLive ==
    /\ Init
    /\ [][NextLive]_vars
    /\ WF_vars(PromptA \/ PromptB \/ JuryPrompt \/ Finish(Ids))
    /\ WF_vars(ReturnA(DebaterContents("A", i), DebaterUsages) \/ FailA)
    /\ WF_vars(ReturnB(DebaterContents("B", i), DebaterUsages) \/ FailB)
    /\ WF_vars(JuryReturn(LiveJudgeResponses, JudgeUsages) \/ JuryFail)

\* the two ways a run ends
RecordAppended ==
    /\ pc = "done"
    /\ Len(out_jsonl) = Len(file_at_start) + 1
    /\ IsPrefix(file_at_start, out_jsonl)

AbortedWithoutRecord ==
    /\ pc = "raised"
    /\ out_jsonl = file_at_start

\* at most 8 debater calls, and at most one call for each configured judge
CallsBounded ==
    /\ Len(Calls({"A", "B"})) <= 2 * NumRounds
    /\ \A k \in 1..Len(Calls({"J"})) :
         /\ Calls({"J"})[k].round \in 1..Len(judge_configs)
         /\ \A m \in 1..Len(Calls({"J"})) :
               Calls({"J"})[m].round = Calls({"J"})[k].round => m = k

\* C30: every run ends, and stays ended, in one of two ways, its record appended
\* to the file or an exception raised and the file as it was; at no point has it
\* made more than 8 debater calls or more than one call for a configured judge.
C30_RunTerminates ==
    /\ <>[](RecordAppended \/ AbortedWithoutRecord)
    /\ [](pc = "done" => RecordAppended)
    /\ [](pc = "raised" => AbortedWithoutRecord)
    /\ []CallsBounded

\* a run that made all its calls and appended its record
C30_Witness ==
    /\ RecordAppended
    /\ Len(judge_configs) = MaxJudges
    /\ Len(Calls({"A", "B"})) = 2 * NumRounds
    /\ Len(Calls({"J"})) = Len(judge_configs)
    /\ raised = ""

====
